---- MODULE Spec2Model ----
(***************************************************************************)
(* Model of the agentgit event -> DAG tracer, its SQLite store, the event  *)
(* bus and the agenttest recording session.                                *)
(*                                                                         *)
(* The one sqlite3 connection shared by DagStore, TestStore and Eventbus   *)
(* is the variable conn: conn.db is what the connection sees (committed    *)
(* rows plus the rows of its open transaction), conn.durable is what has   *)
(* been committed.  commit copies db to durable, rollback copies durable   *)
(* to db.                                                                  *)
(*                                                                         *)
(* Owners are (user_id, session_id) pairs; every modelled run uses         *)
(* session_id "default", so the user_id stands for the pair.               *)
(***************************************************************************)
EXTENDS Integers, Sequences, FiniteSets, TLC

\* ---------------------------------------------------------------- bounds
MaxNodes == 2
MaxBranches == 2
MaxSubs == 3
MaxDetails == 2
MaxLen == 3
MaxSteps == 2
MaxMessages == 2
MaxTools == 2
MaxCommits == 2
MaxOwnerBranches == 3
MaxComparisons == 2

\* ------------------------------------------------------------ vocabulary
NULL == -1
NONE == "None"

Users == {"default", "agenttest"}
SessionUser == "agenttest"
EventUsers == Users \cup {NONE}
BranchNames == {"main", "alt"}
OwnerBranchNames == {"main", "alt", "fix"}
RecordingNames == {"r1"}
RecordingIds == {"rec_b", "rec_1", "rec_2"}
FromNodes == {NULL, 1, 2}
Publishers == {1, 2}
SeqPublishers == {1}

EventType ==
    {"user_input", "llm_call_start", "llm_call_end", "llm_stream_chunk",
     "llm_stream_end", "llm_error", "tool_call_start", "tool_call_end",
     "tool_error", "agent_turn_start", "agent_turn_end", "agent_thinking"}

\* the event kinds the modelled publishers emit, and subscribe to by hand
PublishedKinds == {"llm_call_end", "user_input"}
SubscribeKinds == {"llm_call_end", "user_input"}
ExtraCallbacks == {"failing", "noop"}

VARIABLES
    conn,              \* [db, durable]: the shared sqlite3 connection
    busConn,           \* Eventbus.conn is bound (TRUE) or None (FALSE)
    tieBreak,          \* row order of equal created_at (fixed by the schema)
    subscribers,       \* Eventbus._subscribers
    reg_count,         \* number of subscribe calls made so far
    active_recording,  \* AgentTestSession._active_recording
    pub,               \* the publish calls in flight, one per publisher
    walk,              \* a get_path_to_root call in progress
    adapter,           \* the langgraph_callback adapter's per-run maps
    align,             \* an align_by_lcs call: its inputs and its result
    comparison,        \* a compare_recordings call: its inputs and its result
    fp,                \* compute_fingerprint calls: their requests and results
    vc                 \* the workspaces, the snapshot repository, the last call

vars == <<conn, busConn, tieBreak, subscribers, reg_count,
          active_recording, pub, walk, adapter, align, comparison, fp, vc>>

\* ------------------------------------------------------- Python truthiness
IntTruthy(x) == x # NULL /\ x # 0
StrTruthy(s) == s # NULL
UserTruthy(u) == u # NONE

Min(S) == CHOOSE x \in S : \A y \in S : x <= y
Max(S) == CHOOSE x \in S : \A y \in S : y <= x

\* ------------------------------------------------- the sqlite3 connection
EmptyDb ==
    [nodes |-> <<>>, branches |-> <<>>, recordings |-> <<>>,
     details |-> <<>>, checkpoints |-> <<>>]

Commit(C) == [C EXCEPT !.durable = C.db]
Rollback(C) == [C EXCEPT !.db = C.durable]

\* ---------------------------------------------------------------- DagStore
\* insert_node writing the default owner instead of its user_id argument
insert_node_as_default(C, user_id, parent_id, branch_id, checkpoint_sha, action_type) ==
    Commit([C EXCEPT !.db.nodes = Append(@,
        [user_id |-> "default",
         parent_id |-> IF StrTruthy(parent_id) THEN parent_id ELSE NULL,
         branch_id |-> branch_id,
         checkpoint_sha |-> checkpoint_sha,
         action_type |-> action_type])])

\* insert_node leaving the checkpoint_sha column empty
insert_node_without_sha(C, user_id, parent_id, branch_id, checkpoint_sha, action_type) ==
    Commit([C EXCEPT !.db.nodes = Append(@,
        [user_id |-> user_id,
         parent_id |-> IF StrTruthy(parent_id) THEN parent_id ELSE NULL,
         branch_id |-> branch_id,
         checkpoint_sha |-> NONE,
         action_type |-> action_type])])

insert_node(C, user_id, parent_id, branch_id, checkpoint_sha, action_type) ==
    Commit([C EXCEPT !.db.nodes = Append(@,
        [user_id |-> user_id,
         parent_id |-> IF StrTruthy(parent_id) THEN parent_id ELSE NULL,
         branch_id |-> branch_id,
         checkpoint_sha |-> checkpoint_sha,
         action_type |-> action_type])])

lastrowid_nodes(C) == Len(C.db.nodes)

get_node(D, user_id, node_id) ==
    IF node_id \in 1 .. Len(D.nodes) /\ D.nodes[node_id].user_id = user_id
    THEN node_id ELSE 0

\* _row_to_node: parent_id = str(row[1]) if row[1] else None
NodeParent(D, node_id) ==
    IF IntTruthy(D.nodes[node_id].parent_id)
    THEN D.nodes[node_id].parent_id ELSE NULL

\* int(datetime.now().timestamp()): the second of the latest branch so far, or a
\* later one; only the order of the created_at values is ever read
Now(D, later) ==
    IF D.branches = <<>> THEN 0
    ELSE LET latest == Max({D.branches[i].created_at : i \in 1 .. Len(D.branches)})
         IN IF later THEN latest + 1 ELSE latest

insert_branch(C, user_id, name, head_node_id, base_node_id, status, created_at) ==
    Commit([C EXCEPT !.db.branches = Append(@,
        [user_id |-> user_id,
         name |-> name,
         head_node_id |-> IF StrTruthy(head_node_id) THEN head_node_id ELSE NULL,
         base_node_id |-> IF StrTruthy(base_node_id) THEN base_node_id ELSE NULL,
         status |-> status,
         created_at |-> created_at])])

lastrowid_branches(C) == Len(C.db.branches)

\* _row_to_branch: head_node_id = str(row[4]) if row[4] else None
BranchHead(D, branch_id) ==
    IF IntTruthy(D.branches[branch_id].head_node_id)
    THEN D.branches[branch_id].head_node_id ELSE NULL

BranchBase(D, branch_id) ==
    IF IntTruthy(D.branches[branch_id].base_node_id)
    THEN D.branches[branch_id].base_node_id ELSE NULL

get_branch(D, user_id, name) ==
    LET S == {i \in 1 .. Len(D.branches) :
                D.branches[i].user_id = user_id /\ D.branches[i].name = name}
    IN IF S = {} THEN 0 ELSE Min(S)

get_active_branch(D, user_id) ==
    LET S == {i \in 1 .. Len(D.branches) :
                D.branches[i].user_id = user_id /\ D.branches[i].status = "active"}
        newest == {i \in S : \A j \in S :
                     D.branches[j].created_at <= D.branches[i].created_at}
    IN IF S = {} THEN 0
       ELSE IF tieBreak = "low" THEN Min(newest) ELSE Max(newest)

\* the UPDATE without branch_id in its WHERE clause
update_branch_head_of_owner(C, user_id, branch_id, new_head_id) ==
    Commit([C EXCEPT !.db.branches = [i \in 1 .. Len(@) |->
        IF @[i].user_id = user_id
        THEN [@[i] EXCEPT !.head_node_id = new_head_id] ELSE @[i]]])

update_branch_head(C, user_id, branch_id, new_head_id) ==
    Commit([C EXCEPT !.db.branches = [i \in 1 .. Len(@) |->
        IF i = branch_id /\ @[i].user_id = user_id
        THEN [@[i] EXCEPT !.head_node_id = new_head_id] ELSE @[i]]])

update_branch_status(C, user_id, branch_id, status) ==
    Commit([C EXCEPT !.db.branches = [i \in 1 .. Len(@) |->
        IF i = branch_id /\ @[i].user_id = user_id
        THEN [@[i] EXCEPT !.status = status] ELSE @[i]]])


\* branches.name is unique within an owner
BranchNameFree(D, user_id, name) == get_branch(D, user_id, name) = 0

insert_checkpoint(C, hash, node_id, filesystem_ref) ==
    Commit([C EXCEPT !.db.checkpoints = Append(@,
        [hash |-> hash, node_id |-> node_id, filesystem_ref |-> filesystem_ref])])

\* checkpoints rows are keyed by hash
CheckpointHashFree(D, hash) ==
    \A i \in 1 .. Len(D.checkpoints) : D.checkpoints[i].hash # hash

\* --------------------------------------------------------------- TestStore
insert_recording(C, user_id, branch_id) ==
    Commit([C EXCEPT !.db.recordings = Append(@,
        [user_id |-> user_id, branch_id |-> branch_id,
         status |-> "in_progress", step_count |-> 0])])

update_recording_status(C, recording_id, status, step_count) ==
    Commit([C EXCEPT !.db.recordings = [i \in 1 .. Len(@) |->
        IF i = recording_id
        THEN [@[i] EXCEPT
                !.status = IF status # NONE THEN status ELSE @,
                !.step_count = IF step_count # NULL THEN step_count ELSE @]
        ELSE @[i]]])

\* does not commit: the row stays in the connection's open transaction
insert_llm_call_detail(C, node_id, recording_id, step_index) ==
    [C EXCEPT !.db.details = Append(@,
        [node_id |-> node_id, recording_id |-> recording_id,
         step_index |-> step_index])]

\* ------------------------------------------------------------------ Tracer
\* handle_event's dispatch table: the action type recorded for an event kind
NodeAction(kind) ==
    CASE kind = "user_input" -> "user_input"
      [] kind = "llm_call_start" -> "llm_call"
      [] kind = "llm_call_end" -> "llm_response"
      [] kind = "llm_stream_end" -> "llm_response"
      [] kind = "agent_thinking" -> "llm_response"
      [] kind = "llm_error" -> "llm_error"
      [] kind = "tool_call_start" -> "tool_call"
      [] kind = "tool_call_end" -> "tool_result"
      [] kind = "tool_error" -> "tool_error"
      [] kind = "agent_turn_end" -> "agent_turn_end"
      [] OTHER -> NONE

\* _create_node without its early return for a missing active branch
create_node_without_branch(C, user_id, action_type) ==
    LET branch == get_active_branch(C.db, user_id)
        parent_id == IF branch = 0 THEN NULL ELSE BranchHead(C.db, branch)
        C1 == insert_node(C, user_id, parent_id, branch, NONE, action_type)
    IN update_branch_head(C1, user_id, branch, lastrowid_nodes(C1))

\* _create_node without its update_branch_head call
create_node_keeps_head(C, user_id, action_type) ==
    LET branch == get_active_branch(C.db, user_id)
    IN IF branch = 0 THEN C
       ELSE insert_node(C, user_id, BranchHead(C.db, branch), branch, NONE, action_type)

create_node(C, user_id, action_type) ==
    LET branch == get_active_branch(C.db, user_id)
    IN IF branch = 0 THEN C
       ELSE LET parent_id == BranchHead(C.db, branch)
                C1 == insert_node(C, user_id, parent_id, branch, NONE, action_type)
            IN update_branch_head(C1, user_id, branch, lastrowid_nodes(C1))

handle_event(C, kind, ev_user) ==
    LET user_id == IF UserTruthy(ev_user) THEN ev_user ELSE "default"
    IN IF NodeAction(kind) = NONE THEN C
       ELSE create_node(C, user_id, NodeAction(kind))

\* ------------------------------------------------- AgentGraph / BranchTools
ag_create_branch(C, user_id, name, base_node_id, later) ==
    insert_branch(C, user_id, name,
                  IF IntTruthy(base_node_id) THEN base_node_id ELSE 0,
                  IF IntTruthy(base_node_id) THEN base_node_id ELSE 0,
                  "active", Now(C.db, later))

\* BranchTools.create_branch: the node the new branch is forked from
ForkBase(D, user_id, from_node) ==
    IF from_node # NULL THEN from_node
    ELSE LET active == get_active_branch(D, user_id)
         IN IF active # 0 THEN BranchHead(D, active) ELSE NULL

\* ------------------------------------------------------- AgentTestSession
NoRecording == [recording_id |-> 0, step_count |-> 0]

SessionEventUser(ev_user) == IF UserTruthy(ev_user) THEN ev_user ELSE SessionUser

\* _on_llm_call_end without its check of _active_recording
SessionRecords_any_time(C, ar, ev_user) ==
    LET branch == get_active_branch(C.db, SessionEventUser(ev_user))
    IN branch # 0 /\ BranchHead(C.db, branch) # NULL

\* _on_llm_call_end gets past its two early returns
SessionRecords(C, ar, ev_user) ==
    /\ ar.recording_id # 0
    /\ LET branch == get_active_branch(C.db, SessionEventUser(ev_user))
       IN branch # 0 /\ BranchHead(C.db, branch) # NULL

\* first half of _on_llm_call_end: build the LLMCallDetail and insert it
session_insert(C, ar, ev_user) ==
    LET branch == get_active_branch(C.db, SessionEventUser(ev_user))
    IN insert_llm_call_detail(C, BranchHead(C.db, branch),
                              ar.recording_id, ar.step_count)

\* the handler without step_count += 1
session_step_keeps_count(ar) == ar

\* second half: step_count += 1 and update_recording_status
session_step(ar) == [ar EXCEPT !.step_count = @ + 1]

session_update(C, ar) ==
    update_recording_status(C, ar.recording_id, "in_progress", ar.step_count)


\* ------------------------------------------------------------------- state
IdlePub ==
    [pc |-> "idle", kind |-> NONE, user_id |-> NONE, idx |-> 0,
     called |-> <<>>, node |-> 0, detail |-> 0]

IdleWalk ==
    [pc |-> "idle", user_id |-> NONE, node_id |-> 0, current_id |-> NULL,
     path |-> <<>>]

RunIds == {1, 2}
NoContext == <<NONE, NONE>>
NoCall ==
    [cb |-> NONE, run_id |-> 0, had_entry |-> FALSE, published |-> NONE,
     raised |-> FALSE, configurable |-> NoContext,
     ev_user |-> NONE, resolved |-> NoContext]

\* langgraph_callback.__init__: empty _runs, _tool_runs and _context_map; open
\* and last record the runs still to end and the latest callback
IdleAdapter ==
    [runs |-> {}, tool_runs |-> {},
     context_map |-> [r \in RunIds |-> NoContext],
     open |-> [r \in RunIds |-> NONE],
     last |-> NoCall]

IdleAlign == [pc |-> "idle", baseline |-> <<>>, replay |-> <<>>, pairs |-> <<>>]

\* scored keeps the step statuses as they were before mark_cascades
\* baseline_id and replay_id are the recording_id of the two recordings,
\* returned the results compare_recordings has returned, stored what the last
\* store_comparison returned; keyed tells whether at_comparisons has a unique
\* comparison_id
IdleComparison ==
    [pc |-> "idle", baseline |-> <<>>, replay |-> <<>>, scored |-> <<>>,
     result |-> [raised |-> NONE],
     baseline_id |-> NONE, replay_id |-> NONE, keyed |-> FALSE,
     returned |-> <<>>, stored |-> NONE,
     at_comparisons |-> <<>>, at_step_comparisons |-> <<>>]

\* request, combined and fingerprint belong to the first compute_fingerprint
\* call, request2, combined2 and fingerprint2 to the call for the changed request
IdleFp ==
    [pc |-> "idle", provider |-> NONE, method |-> NONE,
     change |-> [kind |-> NONE, at |-> 0],
     request |-> NONE, combined |-> NONE, fingerprint |-> NONE,
     request2 |-> NONE, combined2 |-> NONE, fingerprint2 |-> NONE]

Files == {"x.txt", "y.txt"}
FileContents == {"1", "2"}
ProjectDir == "project_dir"

\* CheckpointStore._get_workspace (the session is always "default")
get_workspace(user_id) ==
    IF user_id = NONE \/ user_id = "default" THEN ProjectDir
    ELSE "workspaces/" \o user_id \o "/default"

Workspaces == {get_workspace(u) : u \in Users}

\* the Checkpoint a caller holds, with the owner it was made for
NoCheckpoint == [hash |-> NONE, filesystem_ref |-> NONE, user_id |-> NONE]

\* the checkpoint or restore call that has just been made: workspace is the
\* directory restore_commit wrote into, created_for the owner of the checkpoint
NoVcCall ==
    [op |-> NONE, user_id |-> NONE, returned |-> NONE,
     hash |-> NONE, filesystem_ref |-> NONE, workspace |-> NONE,
     created_for |-> NONE, node_id |-> 0]

\* AgentGraph(project_dir): empty workspaces and an empty snapshots.git
IdleVc ==
    [agit_dir |-> ".agentgit",
     files |-> [w \in Workspaces |-> [f \in Files |-> NONE]],
     commits |-> <<>>,
     held |-> NoCheckpoint,
     last |-> NoVcCall]

\* no comparison, fingerprint or checkpoint call is under way
NoOtherCalls == comparison = IdleComparison /\ fp = IdleFp /\ vc = IdleVc

\* the state after AgentGraph.__init__ (the tracer subscribes to every kind)
\* and AgentTestSession.__init__ (the session subscribes to llm_call_end)
Constructed ==
    /\ conn = [db |-> EmptyDb, durable |-> EmptyDb]
    /\ tieBreak \in {"low", "high"}
    /\ subscribers = [k \in EventType |->
          IF k = "llm_call_end"
          THEN <<[cb |-> "tracer", seq |-> 1], [cb |-> "session", seq |-> 2]>>
          ELSE <<[cb |-> "tracer", seq |-> 1]>>]
    /\ reg_count = 2
    /\ active_recording = NoRecording
    /\ pub = [p \in Publishers |-> IdlePub]
    /\ walk = IdleWalk
    /\ adapter = IdleAdapter

\* AgentGit binds the store's connection to its bus (the transactional variant)
Init == Constructed /\ busConn = TRUE /\ align = IdleAlign /\ NoOtherCalls

NoPublishRunning == \A p \in Publishers : pub[p].pc \notin {"running", "session_mid"}

\* a publish call that has returned leaves nothing behind once the caller moves on
Returned(P) == [p \in Publishers |->
                  IF P[p].pc \in {"done", "raised"} THEN IdlePub ELSE P[p]]

\* ---------------------------------------------------------------- Eventbus
\* subscribe putting the callback at the front of the kind's list
subscribe_at_front(subs, kind, cb, seq) ==
    [subs EXCEPT ![kind] = <<[cb |-> cb, seq |-> seq]>> \o @]

\* subscribe appends the callback to the kind's list
subscribe(subs, kind, cb, seq) ==
    [subs EXCEPT ![kind] = Append(@, [cb |-> cb, seq |-> seq])]

Subscribe(kind, cb) ==
    /\ Len(subscribers[kind]) < MaxSubs
    /\ subscribers' = subscribe(subscribers, kind, cb, reg_count + 1)
    /\ reg_count' = reg_count + 1
    /\ pub' = Returned(pub)
    /\ UNCHANGED <<conn, busConn, tieBreak, active_recording, walk, adapter, align,
                   comparison, fp, vc>>

\* subscribe_all: subscribe(kind, cb) for every kind
SubscribeAll(cb) ==
    /\ \A k \in EventType : Len(subscribers[k]) < MaxSubs
    /\ subscribers' = [k \in EventType |->
                          subscribe(subscribers, k, cb, reg_count + 1)[k]]
    /\ reg_count' = reg_count + 1
    /\ pub' = Returned(pub)
    /\ UNCHANGED <<conn, busConn, tieBreak, active_recording, walk, adapter, align,
                   comparison, fp, vc>>

\* publish, up to its first callback
StartPublish(p, kind, ev_user) ==
    /\ pub[p].pc \in {"idle", "done", "raised"}
    /\ Len(conn.db.nodes) < MaxNodes
    /\ Len(conn.db.details) < MaxDetails
    /\ pub' = [pub EXCEPT ![p] =
          [IdlePub EXCEPT !.pc = IF Len(subscribers[kind]) = 0
                                 THEN "done" ELSE "running",
                          !.kind = kind, !.user_id = ev_user, !.idx = 1]]
    /\ UNCHANGED <<conn, busConn, tieBreak, subscribers, reg_count,
                   active_recording, walk, adapter, align,
                   comparison, fp, vc>>

\* what the publish records about the tracer's callback
TracerNote(P, C, C1) ==
    IF Len(C1.db.nodes) > Len(C.db.nodes)
    THEN [P EXCEPT !.node = lastrowid_nodes(C1)] ELSE P

Called(P, sub) == [P EXCEPT !.called = Append(@, sub), !.idx = @ + 1]

\* one callback of the publish loop, run to completion
RunSubscriber(p) ==
    /\ pub[p].pc = "running"
    /\ pub[p].idx <= Len(subscribers[pub[p].kind])
    /\ LET P == pub[p]
           sub == subscribers[P.kind][P.idx]
       IN CASE sub.cb = "tracer" ->
                 LET C1 == handle_event(conn, P.kind, P.user_id)
                 IN /\ conn' = C1
                    /\ pub' = [pub EXCEPT ![p] = Called(TracerNote(P, conn, C1), sub)]
                    /\ UNCHANGED active_recording
            [] sub.cb = "session" ->
                 IF SessionRecords(conn, active_recording, P.user_id)
                 THEN LET C1 == session_insert(conn, active_recording, P.user_id)
                          ar == session_step(active_recording)
                      IN /\ conn' = session_update(C1, ar)
                         /\ active_recording' = ar
                         /\ pub' = [pub EXCEPT ![p] =
                               [Called(P, sub) EXCEPT !.detail = Len(C1.db.details)]]
                 ELSE /\ pub' = [pub EXCEPT ![p] = Called(P, sub)]
                      /\ UNCHANGED <<conn, active_recording>>
            [] sub.cb = "noop" ->
                 /\ pub' = [pub EXCEPT ![p] = Called(P, sub)]
                 /\ UNCHANGED <<conn, active_recording>>
            [] sub.cb = "failing" ->
                 /\ conn' = IF busConn THEN Rollback(conn) ELSE conn
                 /\ pub' = [pub EXCEPT ![p] = [Called(P, sub) EXCEPT !.pc = "raised"]]
                 /\ UNCHANGED active_recording
    /\ UNCHANGED <<busConn, tieBreak, subscribers, reg_count, walk, adapter, align,
                   comparison, fp, vc>>

\* every callback returned: commit when a connection is bound
FinishPublish(p) ==
    /\ pub[p].pc = "running"
    /\ pub[p].idx > Len(subscribers[pub[p].kind])
    /\ conn' = IF busConn THEN Commit(conn) ELSE conn
    /\ pub' = [pub EXCEPT ![p].pc = "done"]
    /\ UNCHANGED <<busConn, tieBreak, subscribers, reg_count,
                   active_recording, walk, adapter, align,
                   comparison, fp, vc>>

\* ------------------------------------------------------ session operations
\* BranchTools.create_branch -> AgentGraph.create_branch
\* with at most limit branches in the store
CreateBranchUpTo(limit, user_id, name, from_node, later) ==
    /\ Len(conn.db.branches) < limit
    /\ BranchNameFree(conn.db, user_id, name)
    /\ conn' = ag_create_branch(conn, user_id, name,
                                ForkBase(conn.db, user_id, from_node), later)
    /\ pub' = Returned(pub)
    /\ UNCHANGED <<busConn, tieBreak, subscribers, reg_count,
                   active_recording, walk, adapter, align,
                   comparison, fp, vc>>

CreateBranch(user_id, name, from_node, later) ==
    CreateBranchUpTo(MaxBranches, user_id, name, from_node, later)

\* BranchTools.switch_branch, when it returns True
SwitchBranch(user_id, name) ==
    /\ LET branch == get_branch(conn.db, user_id, name)
           current_active == get_active_branch(conn.db, user_id)
           C1 == IF current_active # 0 /\ current_active # branch
                 THEN update_branch_status(conn, user_id, current_active, "completed")
                 ELSE conn
       IN /\ branch # 0
          /\ conn' = update_branch_status(C1, user_id, branch, "active")
    /\ pub' = Returned(pub)
    /\ UNCHANGED <<busConn, tieBreak, subscribers, reg_count,
                   active_recording, walk, adapter, align,
                   comparison, fp, vc>>

\* AgentGraph.checkpoint; the snapshot commit is the sha, the hash is that of
\* the agent memory
Checkpoint(user_id, sha, hash) ==
    /\ Len(conn.db.nodes) < MaxNodes
    /\ LET branch == get_active_branch(conn.db, user_id)
           C1 == insert_node(conn, user_id, BranchHead(conn.db, branch), branch,
                             sha, "checkpoint")
           C2 == update_branch_head(C1, user_id, branch, lastrowid_nodes(C1))
       IN /\ branch # 0
          /\ conn' = IF CheckpointHashFree(C2.db, hash)
                     THEN insert_checkpoint(C2, hash, lastrowid_nodes(C1), sha)
                     ELSE C2
    /\ pub' = Returned(pub)
    /\ UNCHANGED <<busConn, tieBreak, subscribers, reg_count,
                   active_recording, walk, adapter, align,
                   comparison, fp, vc>>

RecordingBranchName(name) == "recording/" \o name

CreateRecording(name, later) ==
    /\ Len(conn.db.branches) < MaxBranches
    /\ BranchNameFree(conn.db, SessionUser, RecordingBranchName(name))
    /\ LET C1 == ag_create_branch(conn, SessionUser, RecordingBranchName(name),
                                  NULL, later)
           C2 == insert_recording(C1, SessionUser, lastrowid_branches(C1))
       IN /\ conn' = C2
          /\ active_recording' =
                [recording_id |-> Len(C2.db.recordings), step_count |-> 0]
    /\ pub' = Returned(pub)
    /\ UNCHANGED <<busConn, tieBreak, subscribers, reg_count, walk, adapter, align,
                   comparison, fp, vc>>

CompleteRecording(recording_id, error) ==
    /\ recording_id \in 1 .. Len(conn.db.recordings)
    /\ conn' = update_recording_status(conn, recording_id,
                  IF error THEN "failed" ELSE "completed", NULL)
    /\ active_recording' = NoRecording
    /\ pub' = Returned(pub)
    /\ UNCHANGED <<busConn, tieBreak, subscribers, reg_count, walk, adapter, align,
                   comparison, fp, vc>>

\* complete_recording called on a second AgentTestSession over the same
\* database: it has no recording of its own, so its _active_recording is and
\* stays None, and this session's _active_recording is not touched
OtherSessionCompleteRecording(recording_id, error) ==
    /\ recording_id \in 1 .. Len(conn.db.recordings)
    /\ conn' = update_recording_status(conn, recording_id,
                  IF error THEN "failed" ELSE "completed", NULL)
    /\ pub' = Returned(pub)
    /\ UNCHANGED <<busConn, tieBreak, subscribers, reg_count, active_recording,
                   walk, adapter, align, comparison, fp, vc>>

\* ------------------------------------------- DagStore.get_path_to_root
PathStart(user_id, node_id) ==
    /\ walk.pc = "idle"
    /\ walk' = [pc |-> "walking", user_id |-> user_id, node_id |-> node_id,
                current_id |-> node_id, path |-> <<>>]
    /\ pub' = Returned(pub)
    /\ UNCHANGED <<conn, busConn, tieBreak, subscribers, reg_count, active_recording,
                   adapter, align,
                   comparison, fp, vc>>

\* one test of the while condition and, when it holds, one pass of the body.
\* A walk that has appended more nodes than the store holds has come back to a
\* node it already visited and repeats from there: it is not followed further.
PathStep ==
    /\ walk.pc = "walking"
    /\ Len(walk.path) <= Len(conn.db.nodes)
    /\ LET node == IF IntTruthy(walk.current_id)
                   THEN get_node(conn.db, walk.user_id, walk.current_id) ELSE 0
       IN walk' = IF node = 0
                  THEN [walk EXCEPT !.pc = "done"]
                  ELSE [walk EXCEPT !.path = Append(@, node),
                                    !.current_id = NodeParent(conn.db, node)]
    /\ UNCHANGED <<conn, busConn, tieBreak, subscribers, reg_count,
                   active_recording, pub, adapter, align,
                   comparison, fp, vc>>

\* the caller takes list(reversed(path))
PathReturn ==
    /\ walk.pc = "done"
    /\ walk' = IdleWalk
    /\ UNCHANGED <<conn, busConn, tieBreak, subscribers, reg_count,
                   active_recording, pub, adapter, align,
                   comparison, fp, vc>>

Reverse(q) == [i \in 1 .. Len(q) |-> q[Len(q) + 1 - i]]

\* ------------------------------ _on_llm_call_end, statement by statement
CurrentCallback(p) ==
    IF pub[p].pc = "running" /\ pub[p].idx <= Len(subscribers[pub[p].kind])
    THEN subscribers[pub[p].kind][pub[p].idx].cb ELSE NONE

\* up to and including insert_llm_call_detail
SessionInsertStep(p) ==
    /\ CurrentCallback(p) = "session"
    /\ LET P == pub[p]
           sub == subscribers[P.kind][P.idx]
       IN IF SessionRecords(conn, active_recording, P.user_id)
          THEN LET C1 == session_insert(conn, active_recording, P.user_id)
               IN /\ conn' = C1
                  /\ pub' = [pub EXCEPT ![p] =
                        [P EXCEPT !.pc = "session_mid", !.detail = Len(C1.db.details)]]
          ELSE /\ pub' = [pub EXCEPT ![p] = Called(P, sub)]
               /\ UNCHANGED conn
    /\ UNCHANGED <<busConn, tieBreak, subscribers, reg_count, active_recording, walk, adapter, align,
                   comparison, fp, vc>>

\* step_count += 1 and update_recording_status
SessionUpdateStep(p) ==
    /\ pub[p].pc = "session_mid"
    /\ LET P == pub[p]
           sub == subscribers[P.kind][P.idx]
           ar == session_step(active_recording)
       IN /\ conn' = session_update(conn, ar)
          /\ active_recording' = ar
          /\ pub' = [pub EXCEPT ![p] = [Called(P, sub) EXCEPT !.pc = "running"]]
    /\ UNCHANGED <<busConn, tieBreak, subscribers, reg_count, walk, adapter, align,
                   comparison, fp, vc>>

\* ------------------------------------------ Eventbus.publish, as one call
RECURSIVE run_callbacks(_, _, _, _, _, _)
\* the callbacks of the list subs from position i on: the connection and the
\* recording they leave, and whether one of them raised
run_callbacks(C, ar, subs, i, kind, ev_user) ==
    IF i > Len(subs) THEN [conn |-> C, ar |-> ar, raised |-> FALSE]
    ELSE CASE subs[i].cb = "tracer" ->
                run_callbacks(handle_event(C, kind, ev_user), ar, subs, i + 1, kind, ev_user)
           [] subs[i].cb = "session" ->
                IF SessionRecords(C, ar, ev_user)
                THEN run_callbacks(
                        session_update(session_insert(C, ar, ev_user), session_step(ar)),
                        session_step(ar), subs, i + 1, kind, ev_user)
                ELSE run_callbacks(C, ar, subs, i + 1, kind, ev_user)
           [] subs[i].cb = "noop" -> run_callbacks(C, ar, subs, i + 1, kind, ev_user)
           [] subs[i].cb = "failing" -> [conn |-> C, ar |-> ar, raised |-> TRUE]

publish(C, bound, ar, subs, kind, ev_user) ==
    LET r == run_callbacks(C, ar, subs[kind], 1, kind, ev_user)
    IN IF ~bound THEN r
       ELSE IF r.raised THEN [r EXCEPT !.conn = Rollback(@)]
       ELSE [r EXCEPT !.conn = Commit(@)]

\* ------------------------------------------------------ langgraph_callback
\* what a caller passes as configurable (each field present or not) and as
\* metadata (both fields or none)
Configurables == {<<u, s>> : u \in {NONE, "cfg_user"}, s \in {NONE, "cfg_session"}}
Metadatas == {<<NONE, NONE>>, <<"meta_user", "meta_session">>}
ParentRunIds == RunIds \cup {0}

\* _get_session_context; a run_id without an entry maps to NoContext
get_session_context(configurable, metadata, context_map, run_id, parent_run_id) ==
    LET from_meta == ~UserTruthy(configurable[1]) \/ ~UserTruthy(configurable[2])
        c2 == IF from_meta THEN metadata ELSE configurable
        from_map == ~UserTruthy(c2[1]) \/ ~UserTruthy(c2[2])
        c3 == IF ~from_map THEN c2
              ELSE IF run_id # 0 /\ context_map[run_id] # NoContext
                   THEN context_map[run_id]
              ELSE IF parent_run_id # 0 /\ context_map[parent_run_id] # NoContext
                   THEN context_map[parent_run_id]
              ELSE c2
    IN <<IF UserTruthy(c3[1]) THEN c3[1] ELSE "default",
         IF UserTruthy(c3[2]) THEN c3[2] ELSE "default">>

\* self._context_map.get(str(run_id), ("default", "default"))
context_of(A, run_id) ==
    IF A.context_map[run_id] # NoContext THEN A.context_map[run_id]
    ELSE <<"default", "default">>

\* the run under run_id has had its terminal callback
Ended(A, run_id, what) ==
    IF A.open[run_id] = what THEN [A EXCEPT !.open[run_id] = NONE] ELSE A

\* a callback publishes one event: raised is the adapter when publish raises
\* (the statements after the publish are not reached), returned when it returns;
\* last keeps the owner the event carries and the context the adapter holds
\* for the run at the publish
Emit(cb, run_id, had_entry, kind, ev_user, configurable, raised, returned) ==
    LET r == publish(conn, busConn, active_recording, subscribers, kind, ev_user)
    IN /\ conn' = r.conn
       /\ active_recording' = r.ar
       /\ adapter' = [(IF r.raised THEN raised ELSE returned) EXCEPT !.last =
             [cb |-> cb, run_id |-> run_id, had_entry |-> had_entry,
              published |-> kind, raised |-> r.raised, configurable |-> configurable,
              ev_user |-> ev_user, resolved |-> raised.context_map[run_id]]]
       /\ UNCHANGED <<busConn, tieBreak, subscribers, reg_count, pub, walk, align,
                   comparison, fp, vc>>

on_chain_start(run_id, parent_run_id, configurable, metadata) ==
    /\ adapter.open[run_id] = NONE
    /\ adapter' = [adapter EXCEPT
          !.context_map[run_id] = get_session_context(configurable, metadata,
                                     adapter.context_map, run_id, parent_run_id),
          !.open[run_id] = "chain",
          !.last = [NoCall EXCEPT !.cb = "on_chain_start", !.run_id = run_id,
                                  !.configurable = configurable]]
    /\ UNCHANGED <<conn, busConn, tieBreak, subscribers, reg_count,
                   active_recording, pub, walk, align,
                   comparison, fp, vc>>

on_chat_model_start(run_id, parent_run_id, configurable, metadata) ==
    /\ adapter.open[run_id] = NONE
    /\ LET context == get_session_context(configurable, metadata,
                          adapter.context_map, run_id, parent_run_id)
           A == [adapter EXCEPT !.context_map[run_id] = context,
                                !.runs = @ \cup {run_id},
                                !.open[run_id] = "llm"]
       IN Emit("on_chat_model_start", run_id, FALSE, "llm_call_start", context[1],
               configurable, A, A)

on_llm_end(run_id) ==
    IF run_id \notin adapter.runs
    THEN /\ adapter' = [Ended(adapter, run_id, "llm") EXCEPT !.last =
               [NoCall EXCEPT !.cb = "on_llm_end", !.run_id = run_id]]
         /\ UNCHANGED <<conn, busConn, tieBreak, subscribers, reg_count,
                        active_recording, pub, walk, align,
                   comparison, fp, vc>>
    ELSE LET A == Ended(adapter, run_id, "llm")
         IN Emit("on_llm_end", run_id, TRUE, "llm_call_end",
                 context_of(adapter, run_id)[1], NoContext,
                 A, [A EXCEPT !.runs = @ \ {run_id}])

on_llm_error(run_id) ==
    LET A == Ended(adapter, run_id, "llm")
    IN Emit("on_llm_error", run_id, run_id \in adapter.runs, "llm_error", NONE,
            NoContext, A, [A EXCEPT !.runs = @ \ {run_id}])

on_tool_start(run_id) ==
    /\ adapter.open[run_id] = NONE
    /\ LET A == [adapter EXCEPT !.tool_runs = @ \cup {run_id},
                                !.open[run_id] = "tool"]
       IN Emit("on_tool_start", run_id, FALSE, "tool_call_start", NONE, NoContext, A, A)

on_tool_end(run_id) ==
    LET A == [Ended(adapter, run_id, "tool") EXCEPT !.tool_runs = @ \ {run_id}]
    IN Emit("on_tool_end", run_id, run_id \in adapter.tool_runs, "tool_call_end",
            context_of(adapter, run_id)[1], NoContext, A, A)

on_tool_error(run_id) ==
    LET A == [Ended(adapter, run_id, "tool") EXCEPT !.tool_runs = @ \ {run_id}]
    IN Emit("on_tool_error", run_id, run_id \in adapter.tool_runs, "tool_error",
            NONE, NoContext, A, A)

on_chain_end(run_id) ==
    LET A == Ended(adapter, run_id, "chain")
    IN Emit("on_chain_end", run_id, adapter.context_map[run_id] # NoContext,
            "agent_turn_end", context_of(adapter, run_id)[1], NoContext,
            A, [A EXCEPT !.context_map[run_id] = NoContext])

\* ------------------------------------------------------ agenttest.alignment
Fingerprints == {"a", "b", "c"}
FingerprintSeqs == UNION {[1 .. n -> Fingerprints] : n \in 0 .. MaxLen}

\* dp[i][j] of compute_lcs
RECURSIVE dp(_, _, _, _)
dp(seq1, seq2, i, j) ==
    IF i = 0 \/ j = 0 THEN 0
    ELSE IF seq1[i] = seq2[j] THEN dp(seq1, seq2, i - 1, j - 1) + 1
    ELSE Max({dp(seq1, seq2, i - 1, j), dp(seq1, seq2, i, j - 1)})

\* the backtracking loop of compute_lcs from (i, j): the matches in the order
\* they are appended, as 0-based index pairs
RECURSIVE backtrack(_, _, _, _)
backtrack(seq1, seq2, i, j) ==
    IF ~(i > 0 /\ j > 0) THEN <<>>
    ELSE IF seq1[i] = seq2[j]
         THEN <<(<<i - 1, j - 1>>)>> \o backtrack(seq1, seq2, i - 1, j - 1)
    ELSE IF dp(seq1, seq2, i - 1, j) > dp(seq1, seq2, i, j - 1)
         THEN backtrack(seq1, seq2, i - 1, j)
    ELSE backtrack(seq1, seq2, i, j - 1)

\* matching left to right, each element with the first equal one still free
RECURSIVE first_fit(_, _, _, _)
first_fit(seq1, seq2, i, j) ==
    IF i > Len(seq1) THEN <<>>
    ELSE LET J == {k \in j .. Len(seq2) : seq2[k] = seq1[i]}
         IN IF J = {} THEN first_fit(seq1, seq2, i + 1, j)
            ELSE <<(<<i - 1, Min(J) - 1>>)>> \o first_fit(seq1, seq2, i + 1, Min(J) + 1)

compute_lcs_first_fit(seq1, seq2) == first_fit(seq1, seq2, 1, 1)

\* matching each element with the first equal one still free anywhere in the
\* other sequence, whether or not the matches cross
RECURSIVE any_fit(_, _, _, _)
any_fit(seq1, seq2, i, used) ==
    IF i > Len(seq1) THEN <<>>
    ELSE LET J == {k \in 1 .. Len(seq2) : seq2[k] = seq1[i] /\ k \notin used}
         IN IF J = {} THEN any_fit(seq1, seq2, i + 1, used)
            ELSE <<(<<i - 1, Max(J) - 1>>)>>
                 \o any_fit(seq1, seq2, i + 1, used \cup {Max(J)})

compute_lcs_crossing(seq1, seq2) == any_fit(seq1, seq2, 1, {})

compute_lcs(seq1, seq2) == Reverse(backtrack(seq1, seq2, Len(seq1), Len(seq2)))

AlignedPair(status, baseline_index, replay_index) ==
    [status |-> status, baseline_index |-> baseline_index, replay_index |-> replay_index]

\* the while loop of align_by_lcs from (baseline_idx, replay_idx); m and n are
\* the lengths of the two recordings
RECURSIVE align_loop(_, _, _, _, _)
align_loop(m, n, lcs_matches, baseline_idx, replay_idx) ==
    LET lcs_match_set == {lcs_matches[k] : k \in 1 .. Len(lcs_matches)}
        in_b == \E x \in lcs_match_set : x[1] = baseline_idx
        in_r == \E x \in lcs_match_set : x[2] = replay_idx
        baseline_to_replay == (CHOOSE x \in lcs_match_set : x[1] = baseline_idx)[2]
        replay_to_baseline == (CHOOSE x \in lcs_match_set : x[2] = replay_idx)[1]
        inf == m + n + 1
        baseline_match_pos == IF in_b THEN baseline_to_replay ELSE inf
        replay_match_pos == IF in_r THEN replay_to_baseline ELSE inf
    IN IF ~(baseline_idx < m \/ replay_idx < n) THEN <<>>
       ELSE IF <<baseline_idx, replay_idx>> \in lcs_match_set
            THEN <<AlignedPair("matched", baseline_idx, replay_idx)>>
                 \o align_loop(m, n, lcs_matches, baseline_idx + 1, replay_idx + 1)
       ELSE IF baseline_idx < m /\ (~in_b \/ baseline_to_replay < replay_idx)
            THEN <<AlignedPair("removed", baseline_idx, NULL)>>
                 \o align_loop(m, n, lcs_matches, baseline_idx + 1, replay_idx)
       ELSE IF replay_idx < n /\ (~in_r \/ replay_to_baseline < baseline_idx)
            THEN <<AlignedPair("added", NULL, replay_idx)>>
                 \o align_loop(m, n, lcs_matches, baseline_idx, replay_idx + 1)
       ELSE IF baseline_idx < m /\ baseline_match_pos <= replay_match_pos
            THEN align_loop(m, n, lcs_matches, baseline_idx + 1, replay_idx)
       ELSE IF replay_idx < n
            THEN align_loop(m, n, lcs_matches, baseline_idx, replay_idx + 1)
       ELSE align_loop(m, n, lcs_matches,
                       IF baseline_idx < m THEN baseline_idx + 1 ELSE baseline_idx,
                       IF replay_idx < n THEN replay_idx + 1 ELSE replay_idx)

\* align_by_lcs over the fingerprints of the two recordings
align_by_lcs(baseline_fng, replay_fng) ==
    align_loop(Len(baseline_fng), Len(replay_fng),
               compute_lcs(baseline_fng, replay_fng), 0, 0)

AlignByLcs ==
    /\ align.pc = "input"
    /\ align' = [align EXCEPT !.pc = "done",
                              !.pairs = align_by_lcs(align.baseline, align.replay)]
    /\ UNCHANGED <<conn, busConn, tieBreak, subscribers, reg_count,
                   active_recording, pub, walk, adapter, comparison, fp, vc>>

\* ----------------------------------------------------- agenttest.comparator
CmpFingerprints == {"a", "b"}
Responses == {"hello", "hello!", "bye"}
Details == [fingerprint : CmpFingerprints, response_data : Responses]
DetailSeqs == UNION {[1 .. n -> Details] : n \in 0 .. MaxSteps}

\* _exact_match: equal fingerprints and equal response hashes
exact_match(baseline, replay) ==
    IF baseline.fingerprint # replay.fingerprint THEN 0
    ELSE IF baseline.response_data = replay.response_data THEN 1 ELSE 0

\* min(structural, semantic) >= threshold: of the responses in use only
\* "hello" and "hello!" are that close
AboveThreshold(baseline_resp, replay_resp) ==
    {baseline_resp, replay_resp} \subseteq {"hello", "hello!"}

\* the status _compare_pair gives an aligned pair
compare_pair(pair, baseline_details, replay_details) ==
    IF pair.status = "removed" THEN "remove"
    ELSE IF pair.status = "added" THEN "add"
    ELSE LET baseline == baseline_details[pair.baseline_index + 1]
             replay == replay_details[pair.replay_index + 1]
         IN IF exact_match(baseline, replay) = 1 THEN "match"
            ELSE IF AboveThreshold(baseline.response_data, replay.response_data)
                 THEN "match"
            ELSE "diverge"

CountStatus(step_comparisons, status) ==
    Cardinality({i \in 1 .. Len(step_comparisons) : step_comparisons[i] = status})

\* the first step that diverges, steps added or removed not looked at
root_cause_first_diverge(step_comparisons) ==
    LET hits == {i \in 1 .. Len(step_comparisons) : step_comparisons[i] = "diverge"}
    IN IF hits = {} THEN NULL ELSE Min(hits) - 1

\* the root cause loop of compare_recordings (0-based index, or None)
root_cause_index(step_comparisons) ==
    LET hits == {i \in 1 .. Len(step_comparisons) :
                   step_comparisons[i] \in {"diverge", "add", "remove"}}
    IN IF hits = {} THEN NULL ELSE Min(hits) - 1

\* marking nothing
mark_cascades_none(step_comparisons, root) == step_comparisons

mark_cascades(step_comparisons, root) ==
    IF root = NULL THEN step_comparisons
    ELSE [i \in 1 .. Len(step_comparisons) |->
            IF i - 1 \in (root + 1) .. (Len(step_comparisons) - 1)
               /\ step_comparisons[i] = "diverge"
            THEN "cascade" ELSE step_comparisons[i]]

\* a pass that does not look at added steps
overall_pass_ignoring_added(mismatched_steps, added_steps, removed_steps) ==
    mismatched_steps = 0 /\ removed_steps = 0

overall_pass(mismatched_steps, added_steps, removed_steps) ==
    mismatched_steps = 0 /\ added_steps = 0 /\ removed_steps = 0

\* ComparisonResult.__post_init__: a count of 0 is counted again
post_init(r) ==
    LET recount(n, status) == IF n = 0 THEN CountStatus(r.step_comparisons, status) ELSE n
    IN [r EXCEPT !.total_steps = IF @ = 0 THEN Len(r.step_comparisons) ELSE @,
                 !.matched_steps = recount(@, "match"),
                 !.mismatched_steps = recount(@, "diverge"),
                 !.added_steps = recount(@, "add"),
                 !.removed_steps = recount(@, "remove"),
                 !.cascade_steps = recount(@, "cascade")]

\* the step statuses compare_recordings computes before it marks cascades
score_pairs(baseline_details, replay_details) ==
    LET aligned_pairs ==
            align_by_lcs([i \in 1 .. Len(baseline_details) |-> baseline_details[i].fingerprint],
                         [i \in 1 .. Len(replay_details) |-> replay_details[i].fingerprint])
    IN [i \in 1 .. Len(aligned_pairs) |->
            compare_pair(aligned_pairs[i], baseline_details, replay_details)]

\* compare_recordings: the ComparisonResult it returns, or the IndexError of
\* baseline_details[0] on an empty baseline
compare_recordings(baseline_details, replay_details) ==
    LET step_comparisons == score_pairs(baseline_details, replay_details)
        mismatched_steps == CountStatus(step_comparisons, "diverge")
        added_steps == CountStatus(step_comparisons, "add")
        removed_steps == CountStatus(step_comparisons, "remove")
        root == root_cause_index(step_comparisons)
        marked == mark_cascades(step_comparisons, root)
    IN IF Len(baseline_details) = 0 THEN [raised |-> "IndexError"]
       ELSE post_init(
            [raised |-> NONE,
             overall_pass |-> overall_pass(mismatched_steps, added_steps, removed_steps),
             total_steps |-> Len(step_comparisons),
             matched_steps |-> CountStatus(step_comparisons, "match"),
             mismatched_steps |-> mismatched_steps,
             added_steps |-> added_steps,
             removed_steps |-> removed_steps,
             cascade_steps |-> CountStatus(marked, "cascade"),
             root_cause_index |-> root,
             step_comparisons |-> marked])

\* comparison_id: "cmp_" and 12 characters of the sha256 of the baseline's
\* recording_id
comparison_id(baseline_recording_id, replay_recording_id) ==
    "cmp_" \o baseline_recording_id

\* the identifying fields of the ComparisonResult compare_recordings returns
\* for two recordings with these recording_ids
compare_recordings_of(baseline_id, baseline_details, replay_id, replay_details) ==
    LET r == compare_recordings(baseline_details, replay_details)
    IN IF r.raised # NONE THEN r
       ELSE r @@ [comparison_id |-> comparison_id(baseline_id, replay_id),
                  baseline_recording_id |->
                     IF Len(baseline_details) > 0 THEN baseline_id ELSE "",
                  replay_recording_id |->
                     IF Len(replay_details) > 0 THEN replay_id ELSE ""]

CompareRecordings ==
    /\ comparison.pc = "input"
    /\ LET result == compare_recordings_of(comparison.baseline_id, comparison.baseline,
                                           comparison.replay_id, comparison.replay)
       IN comparison' = [comparison EXCEPT
             !.pc = "done",
             !.scored = score_pairs(comparison.baseline, comparison.replay),
             !.result = result,
             !.returned = IF result.raised = NONE /\ comparison.baseline_id # NONE
                          THEN Append(@, result) ELSE @]
    /\ UNCHANGED <<conn, busConn, tieBreak, subscribers, reg_count,
                   active_recording, pub, walk, adapter, align, fp, vc>>

\* TestStore.insert_comparison: one at_comparisons row and one
\* at_step_comparisons row per step, then commit; a second row of one
\* comparison_id is refused when the column is unique
insert_comparison(T, result) ==
    IF T.keyed /\ \E i \in 1 .. Len(T.at_comparisons) :
                     T.at_comparisons[i].comparison_id = result.comparison_id
    THEN [T EXCEPT !.stored = "IntegrityError"]
    ELSE [T EXCEPT
            !.at_comparisons = Append(@, result),
            !.at_step_comparisons = @ \o
                [i \in 1 .. Len(result.step_comparisons) |->
                    [comparison_id |-> result.comparison_id, step_index |-> i - 1,
                     status |-> result.step_comparisons[i]]],
            !.stored = result.comparison_id]

\* ORDER BY step_index ASC over rows in insertion order
RECURSIVE by_step_index(_, _)
by_step_index(rows, k) ==
    IF k > Len(rows) THEN <<>>
    ELSE SelectSeq(rows, LAMBDA x : x.step_index = k) \o by_step_index(rows, k + 1)

\* TestStore.get_comparison: the first row of that comparison_id with the step
\* rows of that comparison_id, through the ComparisonResult constructor
get_comparison_result(T, id) ==
    LET S == {i \in 1 .. Len(T.at_comparisons) : T.at_comparisons[i].comparison_id = id}
        step_rows == by_step_index(
            SelectSeq(T.at_step_comparisons, LAMBDA x : x.comparison_id = id), 0)
    IN IF S = {} THEN [raised |-> NONE, comparison_id |-> NONE]
       ELSE post_init([T.at_comparisons[Min(S)] EXCEPT !.step_comparisons =
                          [i \in 1 .. Len(step_rows) |-> step_rows[i].status]])

\* AgentTestSession.store_comparison of the result just returned
StoreComparison ==
    /\ comparison.pc = "done"
    /\ comparison.result.raised = NONE
    /\ comparison' = [insert_comparison(comparison, comparison.result) EXCEPT
                        !.pc = "stored"]
    /\ UNCHANGED <<conn, busConn, tieBreak, subscribers, reg_count,
                   active_recording, pub, walk, adapter, align, fp, vc>>

\* the same baseline is compared with another replay recording
CompareAnother(replay_id, replay) ==
    /\ comparison.pc = "stored"
    /\ Len(comparison.returned) < MaxComparisons
    /\ replay_id # comparison.replay_id
    /\ comparison' = [comparison EXCEPT !.pc = "input", !.replay_id = replay_id,
                                        !.replay = replay, !.stored = NONE]
    /\ UNCHANGED <<conn, busConn, tieBreak, subscribers, reg_count,
                   active_recording, pub, walk, adapter, align, fp, vc>>

\* ---------------------------------------------------- agenttest.fingerprint
Providers == {"openai", "anthropic"}
Roles == {"user", "assistant", ""}
Contents == {"x", "y"}
ToolNames == {"t1", "t2"}
\* a tool is {"function": {"name": ..}} (OpenAI) or {"name": ..} (Anthropic)
ToolFormats == {"function", "name"}
Temperatures == {0, 1}

\* the requests first sent: every message says "x", temperature 0
FirstRequests ==
    [model : {"m1"},
     messages : UNION {{[i \in 1 .. n |-> [role |-> rs[i], content |-> "x"]] :
                          rs \in [1 .. n -> Roles]} : n \in 0 .. MaxMessages},
     tools : UNION {[1 .. n -> [format : ToolFormats, name : ToolNames]] :
                      n \in 0 .. MaxTools},
     temperature : {0}]

RoleGiven(role) == role # ""

\* _extract_message_roles: the roles of the messages, empty ones left out
extract_message_roles(params) ==
    SelectSeq([i \in 1 .. Len(params.messages) |-> params.messages[i].role], RoleGiven)

IsFirstTool(name) == name = "t1"
IsOtherTool(name) == name # "t1"

\* the tool names in sorted order
extract_tool_names_sorted(params) ==
    LET names == [i \in 1 .. Len(params.tools) |-> params.tools[i].name]
    IN SelectSeq(names, IsFirstTool) \o SelectSeq(names, IsOtherTool)

\* _extract_tool_names: the name of each tool in either format, in order (the
\* requests carry no deprecated "functions" list)
extract_tool_names(params) ==
    [i \in 1 .. Len(params.tools) |->
        IF params.tools[i].format = "function" THEN params.tools[i].name
        ELSE params.tools[i].name]

\* json.dumps of a list of strings
RECURSIVE json_items(_)
json_items(names) ==
    IF Len(names) = 0 THEN ""
    ELSE IF Len(names) = 1 THEN "\"" \o names[1] \o "\""
    ELSE "\"" \o names[1] \o "\", " \o json_items(Tail(names))

json_dumps(names) == "[" \o json_items(names) \o "]"

\* the text compute_fingerprint hashes: "|".join(structural_parts)
structural_signature(provider, method, request_params) ==
    provider \o "|" \o method \o "|" \o request_params.model
        \o "|" \o json_dumps(extract_message_roles(request_params))
        \o "|" \o json_dumps(extract_tool_names(request_params))

\* hashlib.sha256(..).hexdigest()[:16]: a digest stands for the text it was
\* taken of (collisions of the 64 bits are left out)
sha256_16(text) == <<"sha256", text>>

RECURSIVE join_contents(_)
join_contents(messages) ==
    IF Len(messages) = 0 THEN ""
    ELSE messages[1].content \o join_contents(Tail(messages))

\* a fingerprint that also hashes the message contents
compute_fingerprint_with_contents(provider, method, request_params) ==
    sha256_16(structural_signature(provider, method, request_params)
                 \o "|" \o join_contents(request_params.messages))

compute_fingerprint(provider, method, request_params) ==
    sha256_16(structural_signature(provider, method, request_params))

ComputeFingerprint ==
    /\ fp.pc = "input"
    /\ fp' = [fp EXCEPT
          !.pc = "first",
          !.combined = structural_signature(fp.provider, fp.method, fp.request),
          !.fingerprint = compute_fingerprint(fp.provider, fp.method, fp.request)]
    /\ UNCHANGED <<conn, busConn, tieBreak, subscribers, reg_count,
                   active_recording, pub, walk, adapter, align, comparison, vc>>

\* the fingerprint of a second request
Second(kind, at, request2) ==
    /\ fp' = [fp EXCEPT
          !.pc = "second",
          !.change = [kind |-> kind, at |-> at],
          !.request2 = request2,
          !.combined2 = structural_signature(fp.provider, fp.method, request2),
          !.fingerprint2 = compute_fingerprint(fp.provider, fp.method, request2)]
    /\ UNCHANGED <<conn, busConn, tieBreak, subscribers, reg_count,
                   active_recording, pub, walk, adapter, align, comparison, vc>>

Swap(seq, i) ==
    [k \in 1 .. Len(seq) |-> IF k = i THEN seq[i + 1] ELSE IF k = i + 1 THEN seq[i] ELSE seq[k]]

\* the same request sent with other message contents and temperature
Resend ==
    /\ fp.pc = "first"
    /\ \E cs \in [1 .. Len(fp.request.messages) -> Contents], t \in Temperatures :
          Second("resend", 0,
                 [fp.request EXCEPT
                    !.messages = [i \in 1 .. Len(@) |-> [@[i] EXCEPT !.content = cs[i]]],
                    !.temperature = t])

\* the request sent with the messages at i and i + 1 swapped
SwapRoles ==
    /\ fp.pc = "first"
    /\ \E i \in 1 .. Len(fp.request.messages) - 1 :
          Second("swap_roles", i, [fp.request EXCEPT !.messages = Swap(@, i)])

\* the request sent with the tools at i and i + 1 swapped
SwapTools ==
    /\ fp.pc = "first"
    /\ \E i \in 1 .. Len(fp.request.tools) - 1 :
          Second("swap_tools", i, [fp.request EXCEPT !.tools = Swap(@, i)])

\* ------------------------------------------- CheckpointStore and GitBackend
AgitDirs == {".agentgit", "store"}
Memories == {"m1", "m2"}
ignore_patterns == {".agentgit", ".git", "__pycache__", "node_modules"}

\* _get_tracked_files: the files of the workspace no part of whose path is in
\* ignore_patterns; the session workspaces lie under project_dir/agit_dir
get_tracked_files(V, workspace) ==
    IF workspace # ProjectDir /\ V.agit_dir \in ignore_patterns THEN {}
    ELSE {f \in Files : V.files[workspace][f] # NONE}

\* the commit sha git prints for the n-th commit of the repository
ShaOf(n) == "sha" \o ToString(n)
CommitOf(V, sha) == V.commits[CHOOSE n \in 1 .. Len(V.commits) : ShaOf(n) = sha]

\* get_latest_checkpoint: the owner's newest node with a checkpoint_sha
get_latest_checkpoint(D, user_id) ==
    LET S == {i \in 1 .. Len(D.nodes) :
                D.nodes[i].user_id = user_id /\ D.nodes[i].checkpoint_sha # NONE}
    IN IF S = {} THEN 0 ELSE Max(S)

\* GitBackend.create_commit: blobs and tree of the tracked files, one commit
create_commit(V, workspace, parent_sha) ==
    [V EXCEPT !.commits = Append(@,
        [tree |-> [f \in Files |-> IF f \in get_tracked_files(V, workspace)
                                  THEN V.files[workspace][f] ELSE NONE],
         parent |-> parent_sha])]

\* restore_commit that first empties the workspace
restore_commit_clean(V, commit_sha, workspace) ==
    [V EXCEPT !.files[workspace] = CommitOf(V, commit_sha).tree]

\* GitBackend.restore_commit: read-tree, then checkout-index -a -f writes every
\* file of the commit into the workspace
restore_commit(V, commit_sha, workspace) ==
    [V EXCEPT !.files[workspace] = [f \in Files |->
        IF CommitOf(V, commit_sha).tree[f] # NONE
        THEN CommitOf(V, commit_sha).tree[f] ELSE @[f]]]

\* sha256 of the agent memory and history, 12 characters of it
checkpoint_hash(agent_memory) == "h:" \o agent_memory

get_checkpoint(D, hash) ==
    LET S == {i \in 1 .. Len(D.checkpoints) : D.checkpoints[i].hash = hash}
    IN IF S = {} THEN 0 ELSE Min(S)

\* CheckpointStore.restore_checkpoint
restore_checkpoint(V, checkpoint, user_id) ==
    IF checkpoint.filesystem_ref # NONE
    THEN restore_commit(V, checkpoint.filesystem_ref, get_workspace(user_id))
    ELSE V

\* what gets written: x.txt with either content, y.txt is only created
Writes == {<<"x.txt", "1">>, <<"x.txt", "2">>, <<"y.txt", "1">>}

\* an agent or the user writes a file of a workspace, after any call returned
WriteFile(workspace, file, content) ==
    /\ vc.files[workspace][file] # content
    /\ vc' = [vc EXCEPT !.files[workspace][file] = content, !.last = NoVcCall]
    /\ UNCHANGED <<conn, busConn, tieBreak, subscribers, reg_count,
                   active_recording, pub, walk, adapter, align, comparison, fp>>

\* AgentGraph.checkpoint with CheckpointStore.create_checkpoint: the snapshot
\* commit is made first, the node, head and metadata row only under an active
\* branch; a second row of one hash raises after the node is committed
AgCheckpoint(user_id, agent_memory) ==
    /\ Len(conn.db.nodes) < MaxNodes
    /\ Len(vc.commits) < MaxCommits
    /\ vc.agit_dir = ".agentgit" \/ user_id = SessionUser
    /\ LET parent_node == get_latest_checkpoint(conn.db, user_id)
           parent_sha == IF parent_node = 0 THEN NONE
                         ELSE conn.db.nodes[parent_node].checkpoint_sha
           V1 == create_commit(vc, get_workspace(user_id), parent_sha)
           git_sha == ShaOf(Len(V1.commits))
           hash == checkpoint_hash(agent_memory)
           branch == get_active_branch(conn.db, user_id)
           C1 == insert_node(conn, user_id, BranchHead(conn.db, branch), branch,
                             git_sha, "checkpoint")
           C2 == update_branch_head(C1, user_id, branch, lastrowid_nodes(C1))
           raised == branch # 0 /\ ~CheckpointHashFree(C2.db, hash)
           checkpoint == [hash |-> hash, filesystem_ref |-> git_sha, user_id |-> user_id]
       IN /\ conn' = IF branch = 0 THEN conn
                     ELSE IF raised THEN C2
                     ELSE insert_checkpoint(C2, hash, lastrowid_nodes(C1), git_sha)
          /\ vc' = [V1 EXCEPT
                !.held = IF raised THEN @ ELSE checkpoint,
                !.last = [NoVcCall EXCEPT
                            !.op = "checkpoint",
                            !.user_id = user_id,
                            !.returned = IF raised THEN "IntegrityError" ELSE "checkpoint",
                            !.hash = hash, !.filesystem_ref = git_sha,
                            !.created_for = user_id]]
    /\ pub' = Returned(pub)
    /\ UNCHANGED <<busConn, tieBreak, subscribers, reg_count,
                   active_recording, walk, adapter, align, comparison, fp>>

\* AgentGraph.restore(checkpoint) with the Checkpoint the caller holds
AgRestore ==
    /\ vc.held # NoCheckpoint
    /\ vc' = [restore_checkpoint(vc, vc.held, "default") EXCEPT
          !.last = [NoVcCall EXCEPT
                      !.op = "restore",
                      !.user_id = vc.held.user_id, !.returned = "None",
                      !.hash = vc.held.hash,
                      !.filesystem_ref = vc.held.filesystem_ref,
                      !.workspace = get_workspace("default"),
                      !.created_for = vc.held.user_id]]
    /\ pub' = Returned(pub)
    /\ UNCHANGED <<conn, busConn, tieBreak, subscribers, reg_count,
                   active_recording, walk, adapter, align, comparison, fp>>

\* VersionTools.restore_checkpoint(user_id, session_id, checkpoint_hash)
VtRestoreCheckpoint(user_id, hash) ==
    /\ LET checkpoint_row == get_checkpoint(conn.db, hash)
           row == conn.db.checkpoints[checkpoint_row]
           checkpoint == [hash |-> row.hash, filesystem_ref |-> row.filesystem_ref]
       IN vc' = IF checkpoint_row = 0
                THEN [vc EXCEPT !.last = [NoVcCall EXCEPT
                         !.op = "restore_checkpoint",
                         !.user_id = user_id, !.returned = "False",
                         !.hash = hash]]
                ELSE [restore_checkpoint(vc, checkpoint, "default") EXCEPT
                        !.last = [NoVcCall EXCEPT
                           !.op = "restore_checkpoint",
                           !.user_id = user_id, !.returned = "True",
                           !.hash = hash,
                           !.filesystem_ref = row.filesystem_ref,
                           !.workspace = get_workspace("default"),
                           !.created_for = conn.db.nodes[row.node_id].user_id]]
    /\ pub' = Returned(pub)
    /\ UNCHANGED <<conn, busConn, tieBreak, subscribers, reg_count,
                   active_recording, walk, adapter, align, comparison, fp>>

\* VersionTools.get_checkpoint_at_node
get_checkpoint_at_node(D, user_id, node_id) ==
    LET node == get_node(D, user_id, node_id)
    IN IF node # 0 /\ D.nodes[node].checkpoint_sha # NONE
       THEN D.nodes[node].checkpoint_sha ELSE NONE

\* VersionTools.restore_to_node(user_id, session_id, node_id)
VtRestoreToNode(user_id, node_id) ==
    /\ LET checkpoint_sha == get_checkpoint_at_node(conn.db, user_id, node_id)
           checkpoint_row == get_checkpoint(conn.db, checkpoint_sha)
           row == conn.db.checkpoints[checkpoint_row]
           checkpoint == [hash |-> row.hash, filesystem_ref |-> row.filesystem_ref]
           call == [NoVcCall EXCEPT !.op = "restore_to_node", !.user_id = user_id,
                                    !.node_id = node_id]
       IN vc' = IF checkpoint_sha = NONE \/ checkpoint_row = 0
                THEN [vc EXCEPT !.last = [call EXCEPT !.returned = "False"]]
                ELSE [restore_checkpoint(vc, checkpoint, user_id) EXCEPT
                        !.last = [call EXCEPT
                           !.returned = "True",
                           !.hash = row.hash,
                           !.filesystem_ref = row.filesystem_ref,
                           !.workspace = get_workspace(user_id),
                           !.created_for = conn.db.nodes[row.node_id].user_id]]
    /\ pub' = Returned(pub)
    /\ UNCHANGED <<conn, busConn, tieBreak, subscribers, reg_count,
                   active_recording, walk, adapter, align, comparison, fp>>

\* --------------------------------------------------------- specifications
StoreOps ==
    \/ \E u \in Users, n \in BranchNames, f \in FromNodes, l \in BOOLEAN :
          CreateBranch(u, n, f, l)
    \/ \E u \in Users, n \in BranchNames : SwitchBranch(u, n)
    \/ \E u \in Users : Checkpoint(u, "sha1", "h1")
    \/ \E n \in RecordingNames, l \in BOOLEAN : CreateRecording(n, l)
    \/ \E r \in 1 .. Cardinality(RecordingNames), e \in BOOLEAN :
          CompleteRecording(r, e)

\* one publisher: publish calls never overlap, and nothing else runs during one
Next ==
    \/ NoPublishRunning /\ StoreOps
    \/ NoPublishRunning /\ \E p \in SeqPublishers, k \in PublishedKinds, u \in EventUsers :
          StartPublish(p, k, u)
    \/ \E p \in SeqPublishers : RunSubscriber(p)
    \/ \E p \in SeqPublishers : FinishPublish(p)

Spec == Init /\ [][Next]_vars

\* the bus: callbacks registered by hand (AgentGraph.on / on_all) on a bus with
\* or without a bound connection, one publisher
InitBus == Constructed /\ busConn \in BOOLEAN /\ align = IdleAlign /\ NoOtherCalls

NextBus ==
    \/ NoPublishRunning /\ \E k \in SubscribeKinds, cb \in ExtraCallbacks : Subscribe(k, cb)
    \/ NoPublishRunning /\ \E cb \in ExtraCallbacks : SubscribeAll(cb)
    \/ NoPublishRunning /\ \E u \in Users : CreateBranch(u, "main", NULL, FALSE)
    \/ NoPublishRunning /\ \E n \in RecordingNames : CreateRecording(n, FALSE)
    \/ NoPublishRunning /\ \E p \in SeqPublishers, k \in PublishedKinds, u \in EventUsers :
          StartPublish(p, k, u)
    \/ \E p \in SeqPublishers : RunSubscriber(p)
    \/ \E p \in SeqPublishers : FinishPublish(p)

SpecBus == InitBus /\ [][NextBus]_vars

\* registration and dispatch alone, on a store without branches
NextReg ==
    \/ NoPublishRunning /\ \E k \in SubscribeKinds, cb \in ExtraCallbacks : Subscribe(k, cb)
    \/ NoPublishRunning /\ \E cb \in ExtraCallbacks : SubscribeAll(cb)
    \/ NoPublishRunning /\ \E p \in SeqPublishers, k \in PublishedKinds, u \in EventUsers :
          StartPublish(p, k, u)
    \/ \E p \in SeqPublishers : RunSubscriber(p)
    \/ \E p \in SeqPublishers : FinishPublish(p)

SpecReg == InitBus /\ [][NextReg]_vars

\* recordings: the session creates and completes recordings while llm_call_end
\* events arrive, some of them through a publish that a later subscriber fails
RecordedNames == {"r1", "r2"}

NextRec ==
    \/ NoPublishRunning /\ \E n \in RecordedNames : CreateRecording(n, FALSE)
    \/ NoPublishRunning /\ \E r \in 1 .. Cardinality(RecordedNames), e \in BOOLEAN :
          CompleteRecording(r, e)
    \/ NoPublishRunning /\ Subscribe("llm_call_end", "failing")
    \/ NoPublishRunning /\ \E p \in SeqPublishers, u \in {SessionUser, NONE} :
          StartPublish(p, "llm_call_end", u)
    \/ \E p \in SeqPublishers : RunSubscriber(p)
    \/ \E p \in SeqPublishers : FinishPublish(p)

SpecRec == Init /\ [][NextRec]_vars

\* two sessions over one database: this session records llm_call_end events of
\* its owner on a branch, either session completes recordings
NextSessions ==
    \/ NoPublishRunning /\ \E n \in RecordedNames : CreateRecording(n, FALSE)
    \/ NoPublishRunning /\ \E r \in 1 .. Cardinality(RecordedNames), e \in BOOLEAN :
          CompleteRecording(r, e)
    \/ NoPublishRunning /\ \E r \in 1 .. Cardinality(RecordedNames), e \in BOOLEAN :
          OtherSessionCompleteRecording(r, e)
    \/ NoPublishRunning /\ \E p \in SeqPublishers, u \in {SessionUser, NONE} :
          StartPublish(p, "llm_call_end", u)
    \/ \E p \in SeqPublishers : RunSubscriber(p)
    \/ \E p \in SeqPublishers : FinishPublish(p)

SpecSessions == Init /\ [][NextSessions]_vars

\* one owner who creates up to MaxOwnerBranches branches, switches between
\* them and sends events
NextSwitch ==
    \/ NoPublishRunning /\ \E n \in OwnerBranchNames, l \in BOOLEAN :
          CreateBranchUpTo(MaxOwnerBranches, "default", n, NULL, l)
    \/ NoPublishRunning /\ \E n \in OwnerBranchNames : SwitchBranch("default", n)
    \/ NoPublishRunning /\ \E p \in SeqPublishers : StartPublish(p, "user_input", "default")
    \/ \E p \in SeqPublishers : RunSubscriber(p)
    \/ \E p \in SeqPublishers : FinishPublish(p)

SpecSwitch == Init /\ [][NextSwitch]_vars

\* one tracer shared by two owners whose events arrive on two threads
NextShare ==
    \/ NoPublishRunning /\ \E u \in Users, n \in BranchNames : CreateBranch(u, n, NULL, TRUE)
    \/ \E p \in Publishers, u \in Users : StartPublish(p, "user_input", u)
    \/ \E p \in Publishers : RunSubscriber(p)
    \/ \E p \in Publishers : FinishPublish(p)

SpecShare == Init /\ [][NextShare]_vars

\* the LangChain adapter on a store without branches: runs start and end, end
\* callbacks also arrive twice or for runs never started, and a subscriber of
\* llm_call_end may fail
NextAdapter ==
    \/ Subscribe("llm_call_end", "failing")
    \/ \E r \in RunIds, q \in ParentRunIds, c \in Configurables, d \in Metadatas :
          on_chain_start(r, q, c, d)
    \/ \E r \in RunIds, q \in ParentRunIds, c \in Configurables, d \in Metadatas :
          on_chat_model_start(r, q, c, d)
    \/ \E r \in RunIds : on_llm_end(r)
    \/ \E r \in RunIds : on_llm_error(r)
    \/ \E r \in RunIds : on_tool_start(r)
    \/ \E r \in RunIds : on_tool_end(r)
    \/ \E r \in RunIds : on_tool_error(r)
    \/ \E r \in RunIds : on_chain_end(r)

SpecAdapter == Init /\ [][NextAdapter]_vars

\* the aligner applied to every pair of fingerprint sequences up to MaxLen long
InitAlign ==
    /\ Constructed
    /\ busConn = TRUE
    /\ align \in {[pc |-> "input", baseline |-> b, replay |-> r, pairs |-> <<>>] :
                     b \in FingerprintSeqs, r \in FingerprintSeqs}
    /\ NoOtherCalls

NextAlign == AlignByLcs

SpecAlign == InitAlign /\ [][NextAlign]_vars

\* the comparator applied to every pair of recordings up to MaxSteps long
InitCompare ==
    /\ Constructed
    /\ busConn = TRUE
    /\ align = IdleAlign
    /\ fp = IdleFp
    /\ vc = IdleVc
    /\ comparison \in {[IdleComparison EXCEPT !.pc = "input", !.baseline = b, !.replay = r] :
                          b \in DetailSeqs, r \in DetailSeqs}

NextCompare == CompareRecordings

SpecCompare == InitCompare /\ [][NextCompare]_vars

\* one baseline recording compared with up to MaxComparisons replay
\* recordings of one step, each result stored
StoredReplays == {r \in DetailSeqs : Len(r) = 1}

InitStored ==
    /\ Constructed
    /\ busConn = TRUE
    /\ align = IdleAlign
    /\ fp = IdleFp
    /\ vc = IdleVc
    /\ comparison \in {[IdleComparison EXCEPT !.pc = "input", !.keyed = k,
                            !.baseline_id = "rec_b", !.baseline = b,
                            !.replay_id = "rec_1", !.replay = r] :
                          k \in BOOLEAN, b \in DetailSeqs \ {<<>>},
                          r \in StoredReplays}

NextStored ==
    \/ CompareRecordings
    \/ StoreComparison
    \/ \E i \in RecordingIds \ {"rec_b"}, r \in StoredReplays : CompareAnother(i, r)

SpecStored == InitStored /\ [][NextStored]_vars

\* compute_fingerprint on a request and on a changed copy of it
InitFp ==
    /\ Constructed
    /\ busConn = TRUE
    /\ align = IdleAlign
    /\ comparison = IdleComparison
    /\ vc = IdleVc
    /\ fp \in {[IdleFp EXCEPT !.pc = "input", !.provider = p,
                               !.method = "chat.completions.create", !.request = r] :
                  p \in Providers, r \in FirstRequests}

NextFp ==
    \/ ComputeFingerprint
    \/ Resend
    \/ SwapRoles
    \/ SwapTools

SpecFp == InitFp /\ [][NextFp]_vars

\* checkpoints and restores of both owners while workspace files are written;
\* under a store directory of another name only the session's owner takes
\* checkpoints (a snapshot of project_dir would take in the store itself).
\* Each owner has one branch, so no two active branches tie.
InitCkpt ==
    /\ Constructed
    /\ busConn = TRUE
    /\ align = IdleAlign
    /\ comparison = IdleComparison
    /\ fp = IdleFp
    /\ tieBreak = "low"
    /\ vc \in {[IdleVc EXCEPT !.agit_dir = a] : a \in AgitDirs}

NextCkpt ==
    \/ \E u \in Users : CreateBranch(u, "main", NULL, FALSE)
    \/ \E w \in Workspaces, x \in Writes : WriteFile(w, x[1], x[2])
    \/ \E u \in Users, a \in Memories : AgCheckpoint(u, a)
    \/ AgRestore
    \/ \E u \in Users, a \in Memories : VtRestoreCheckpoint(u, checkpoint_hash(a))

SpecCkpt == InitCkpt /\ [][NextCkpt]_vars

\* checkpoints of both owners, workspace writes, and restores to a node
NextNode ==
    \/ \E u \in Users : CreateBranch(u, "main", NULL, FALSE)
    \/ \E w \in Workspaces, x \in Writes : WriteFile(w, x[1], x[2])
    \/ \E u \in Users, a \in Memories : AgCheckpoint(u, a)
    \/ \E u \in Users, n \in 1 .. MaxNodes : VtRestoreToNode(u, n)

SpecNode == InitCkpt /\ [][NextNode]_vars

\* events and checkpoint calls of both owners, each on its one branch
NextSha ==
    \/ NoPublishRunning /\ \E u \in Users : CreateBranch(u, "main", NULL, FALSE)
    \/ NoPublishRunning /\ \E u \in Users, a \in Memories : AgCheckpoint(u, a)
    \/ NoPublishRunning /\ \E p \in SeqPublishers, k \in PublishedKinds, u \in EventUsers :
          StartPublish(p, k, u)
    \/ \E p \in SeqPublishers : RunSubscriber(p)
    \/ \E p \in SeqPublishers : FinishPublish(p)

SpecSha == Init /\ [][NextSha]_vars

\* two publishers (threads) on the one bus and connection: their publish calls
\* overlap, and the session's callback can be left between its two statements
NextConc ==
    \/ NoPublishRunning /\ \E u \in Users : CreateBranch(u, "main", NULL, FALSE)
    \/ NoPublishRunning /\ \E n \in RecordingNames : CreateRecording(n, FALSE)
    \/ NoPublishRunning /\ Subscribe("user_input", "failing")
    \/ \E p \in Publishers, k \in PublishedKinds, u \in Users : StartPublish(p, k, u)
    \/ \E p \in Publishers : CurrentCallback(p) # "session" /\ RunSubscriber(p)
    \/ \E p \in Publishers : SessionInsertStep(p)
    \/ \E p \in Publishers : SessionUpdateStep(p)
    \/ \E p \in Publishers : FinishPublish(p)

SpecConc == Init /\ [][NextConc]_vars

\* the DAG alone: one owner creates, forks and switches branches freely, the
\* other keeps to one branch; events and checkpoints of both
NextDag ==
    \/ NoPublishRunning /\ \E n \in BranchNames, f \in FromNodes, l \in BOOLEAN :
          CreateBranch("default", n, f, l)
    \/ NoPublishRunning /\ CreateBranch(SessionUser, "main", NULL, FALSE)
    \/ NoPublishRunning /\ \E u \in Users, n \in BranchNames : SwitchBranch(u, n)
    \/ NoPublishRunning /\ \E u \in Users : Checkpoint(u, "sha1", "h1")
    \/ NoPublishRunning /\ \E p \in SeqPublishers, u \in Users :
          StartPublish(p, "user_input", u)
    \/ \E p \in SeqPublishers : RunSubscriber(p)
    \/ \E p \in SeqPublishers : FinishPublish(p)

SpecDag == Init /\ [][NextDag]_vars

\* history queries over the stores that branch creation, events and checkpoints
\* build; a query runs to its end before anything else happens
NextPath ==
    \/ walk.pc = "idle" /\ NoPublishRunning
          /\ \E u \in Users, n \in BranchNames, f \in FromNodes :
                CreateBranch(u, n, f, FALSE)
    \/ walk.pc = "idle" /\ NoPublishRunning /\ \E u \in Users : Checkpoint(u, "sha1", "h1")
    \/ walk.pc = "idle" /\ NoPublishRunning
          /\ \E p \in SeqPublishers, u \in Users : StartPublish(p, "user_input", u)
    \/ \E p \in SeqPublishers : RunSubscriber(p)
    \/ \E p \in SeqPublishers : FinishPublish(p)
    \/ NoPublishRunning /\ \E u \in Users, n \in 0 .. MaxNodes : PathStart(u, n)
    \/ PathStep
    \/ PathReturn

SpecPath == Init /\ [][NextPath]_vars

\* ------------------------------------------------------------- properties
NodeIds(D) == 1 .. Len(D.nodes)
BranchIds(D) == 1 .. Len(D.branches)
BranchNodes(D, b) == {n \in NodeIds(D) : D.nodes[n].branch_id = b}
DetailsOf(D, r) == {i \in 1 .. Len(D.details) : D.details[i].recording_id = r}
HasSidecar(D, n) == \E i \in 1 .. Len(D.details) : D.details[i].node_id = n

\* the node k parent links above node n, NULL once the links end
RECURSIVE AncestorAt(_, _, _)
AncestorAt(D, n, k) ==
    IF k = 0 THEN n
    ELSE LET a == AncestorAt(D, n, k - 1)
         IN IF a \in NodeIds(D) THEN D.nodes[a].parent_id ELSE NULL

\* the tracer's callback is the one the publish p runs next, and it adds a node
TracerAppends(p) ==
    /\ CurrentCallback(p) = "tracer"
    /\ pub'[p].idx = pub[p].idx + 1
    /\ Len(conn'.db.nodes) = Len(conn.db.nodes) + 1

\* C5: a node the tracer records for an owner has the head of the owner's active
\* branch before the event as its parent and that branch as its branch, and is
\* the branch's head afterwards
C5_NodeAppendedAtHead ==
    \A p \in Publishers : TracerAppends(p) =>
        LET user_id == IF UserTruthy(pub[p].user_id) THEN pub[p].user_id ELSE "default"
            branch == get_active_branch(conn.db, user_id)
            n == Len(conn'.db.nodes)
        IN /\ branch # 0
           /\ conn'.db.nodes[n].user_id = user_id
           /\ conn'.db.nodes[n].branch_id = branch
           /\ NodeParent(conn'.db, n) = BranchHead(conn.db, branch)
           /\ BranchHead(conn'.db, branch) = n

\* C5: the nodes of a branch, in the order they were appended, are a single
\* parent chain from the branch's starting point to its head
C5_BranchIsOneChain ==
    \A b \in BranchIds(conn.db) :
        LET N == BranchNodes(conn.db, b)
        IN /\ \A n \in N :
                LET before == {m \in N : m < n}
                IN NodeParent(conn.db, n) =
                      IF before = {} THEN BranchBase(conn.db, b) ELSE Max(before)
           /\ BranchHead(conn.db, b) =
                 IF N = {} THEN BranchBase(conn.db, b) ELSE Max(N)

\* C5: every node the tracer records is appended at the head of the owner's
\* active branch, so the nodes of a branch form one parent chain ending at its head
C5_TracerExtendsChain == [][C5_NodeAppendedAtHead]_vars /\ []C5_BranchIsOneChain

\* C5 witness: a second event on a branch has been chained to the first
C5_Witness ==
    \E p \in Publishers :
        /\ pub[p].pc = "done"
        /\ pub[p].node = 2
        /\ conn.db.nodes[2].parent_id = 1
        /\ conn.db.nodes[2].branch_id = conn.db.nodes[1].branch_id

\* C6: every non-null parent_id is the id of a node of the same owner
C6_ParentResolvesForOwner ==
    \A n \in NodeIds(conn.db) :
        conn.db.nodes[n].parent_id # NULL =>
            get_node(conn.db, conn.db.nodes[n].user_id, conn.db.nodes[n].parent_id) # 0

\* C7: the head of every branch with a non-null head_node_id is a node whose
\* branch_id is that branch
C7_HeadBelongsToBranch ==
    \A b \in BranchIds(conn.db) :
        BranchHead(conn.db, b) # NULL =>
            /\ BranchHead(conn.db, b) \in NodeIds(conn.db)
            /\ conn.db.nodes[BranchHead(conn.db, b)].branch_id = b

\* C7 as amended: the head of every branch with a non-null head_node_id is the
\* branch's base_node_id (nothing appended since the fork) or a node whose
\* branch_id is that branch
C7_HeadIsBaseOrOwnNode ==
    \A b \in BranchIds(conn.db) :
        BranchHead(conn.db, b) # NULL =>
            \/ BranchHead(conn.db, b) = BranchBase(conn.db, b)
            \/ /\ BranchHead(conn.db, b) \in NodeIds(conn.db)
               /\ conn.db.nodes[BranchHead(conn.db, b)].branch_id = b

\* C7 witness: a branch forked from another branch's node has had a node
\* appended, and a second branch of the same owner still sits on its fork point
C7_Witness ==
    \E b, c \in BranchIds(conn.db) :
        /\ b # c
        /\ conn.db.branches[b].user_id = conn.db.branches[c].user_id
        /\ BranchBase(conn.db, b) \in NodeIds(conn.db)
        /\ conn.db.nodes[BranchBase(conn.db, b)].branch_id = c
        /\ BranchHead(conn.db, b) # BranchBase(conn.db, b)
        /\ conn.db.nodes[BranchHead(conn.db, b)].branch_id = b

\* C8: no node is reached again by following parent_id links from it
C8_Acyclic ==
    \A n \in NodeIds(conn.db) :
        \A k \in 1 .. Len(conn.db.nodes) : AncestorAt(conn.db, n, k) # n

\* C2: while a recording is active, a committed state never holds the node of an
\* llm_call_end event without its sidecar, and a recording's committed
\* step_count is the number of its committed sidecars
C2_NodeSidecarCountTogether ==
    /\ \A r \in 1 .. Len(conn.durable.recordings) :
          conn.durable.recordings[r].step_count = Cardinality(DetailsOf(conn.durable, r))
    /\ \A p \in Publishers :
          ( /\ pub[p].kind = "llm_call_end"
            /\ active_recording.recording_id # 0
            /\ pub[p].node \in NodeIds(conn.durable) )
          => HasSidecar(conn.durable, pub[p].node)

\* C10: the sidecar written for an event references the node the tracer created
\* for that event
C10_SidecarReferencesEventNode ==
    \A p \in Publishers :
        pub[p].detail \in 1 .. Len(conn.db.details) =>
            /\ pub[p].node # 0
            /\ conn.db.details[pub[p].detail].node_id = pub[p].node

\* C1: when a subscriber registered after the tracer raises on a bus with a
\* bound connection, nothing the publish wrote is visible afterwards: not the
\* tracer's node, not the head advance, not the sidecar
C1_FailedPublishLeavesNothing ==
    \A p \in Publishers :
        (busConn /\ pub[p].pc = "raised") =>
            /\ pub[p].node \notin NodeIds(conn.db)
            /\ pub[p].detail \notin 1 .. Len(conn.db.details)
            /\ \A b \in BranchIds(conn.db) :
                  pub[p].node # 0 => conn.db.branches[b].head_node_id # pub[p].node

\* C3: the callbacks a publish has run are the first ones of the kind's list in
\* the order they were registered, none skipped; the tracer runs before the
\* session
C3_RegistrationOrder ==
    \A p \in Publishers :
        pub[p].kind # NONE =>
            LET called == pub[p].called
                registered == subscribers[pub[p].kind]
            IN /\ \A i \in 1 .. Len(called) - 1 : called[i].seq < called[i + 1].seq
               /\ \A i \in 1 .. Len(called) : \A j \in 1 .. Len(registered) :
                     registered[j].seq < called[i].seq =>
                        \E k \in 1 .. i - 1 : called[k] = registered[j]
               /\ \A i \in 1 .. Len(called) :
                     called[i].cb = "session" =>
                        \E k \in 1 .. i - 1 : called[k].cb = "tracer"

\* C3 witness: an llm_call_end publish on a bus without a connection has run the
\* tracer, the session and a callback that subscribe_all registered after a
\* subscribe to another kind
C3_Witness ==
    \E p \in Publishers :
        /\ ~busConn
        /\ pub[p].pc = "done"
        /\ pub[p].kind = "llm_call_end"
        /\ Len(pub[p].called) = 3
        /\ pub[p].called[3].seq = 4

\* the sidecar row d is in the connection's open transaction
Pending(C, d) == d \in 1 .. Len(C.db.details) /\ d > Len(C.durable.details)

\* C4: the commit or rollback that ends one publish leaves the uncommitted
\* write of another publish still in flight as it was: neither durable nor gone
C4_PublishEndSparesOthers ==
    \A p, q \in Publishers :
        ( /\ p # q
          /\ pub[p].pc = "running"
          /\ pub'[p].pc \in {"done", "raised"}
          /\ pub[q].pc = "session_mid"
          /\ Pending(conn, pub[q].detail) )
        => Pending(conn', pub[q].detail)

\* C4: two publishers on one bus are independent
C4_PublishersIndependent == [][C4_PublishEndSparesOthers]_vars

\* C9: get_path_to_root comes to an end for every node id, and what it returns
\* is a parent chain listed root-first with the requested node last
C9_PathTerminatesRootFirst ==
    /\ walk.pc = "walking" => Len(walk.path) <= Len(conn.db.nodes)
    /\ ( /\ walk.pc = "done"
         /\ get_node(conn.db, walk.user_id, walk.node_id) # 0 )
       => LET result == Reverse(walk.path)
          IN /\ result # <<>>
             /\ result[Len(result)] = walk.node_id
             /\ \A i \in 1 .. Len(result) - 1 :
                   NodeParent(conn.db, result[i + 1]) = result[i]

\* C11: every sidecar references a node whose action_type is llm_response
C11_SidecarOnLlmResponse ==
    \A i \in 1 .. Len(conn.db.details) :
        /\ conn.db.details[i].node_id \in NodeIds(conn.db)
        /\ conn.db.nodes[conn.db.details[i].node_id].action_type = "llm_response"

StepIndexes(D, r) == {D.details[i].step_index : i \in DetailsOf(D, r)}

\* C12: in every recording the step_index values of the sidecars are exactly
\* 0..N-1, N the number of its sidecars, in what the connection sees and in
\* what is committed
C12_StepIndexDense ==
    \A r \in 1 .. Len(conn.db.recordings) :
        /\ StepIndexes(conn.db, r) = 0 .. Cardinality(DetailsOf(conn.db, r)) - 1
        /\ StepIndexes(conn.durable, r) = 0 .. Cardinality(DetailsOf(conn.durable, r)) - 1

\* C12 witness: a publish that recorded a recording's second step has failed in
\* a later subscriber and been rolled back
C12_Witness ==
    \E p \in Publishers :
        /\ pub[p].pc = "raised"
        /\ pub[p].detail = 2
        /\ active_recording.recording_id # 0
        /\ Cardinality(DetailsOf(conn.db, active_recording.recording_id)) = 2

\* the session's callback is the one the publish p runs in this step
SessionHandlerRuns(p) ==
    /\ CurrentCallback(p) = "session"
    /\ pub'[p].idx = pub[p].idx + 1

\* C13: with no recording active the session's llm_call_end handler inserts no
\* sidecar and changes no recording
C13_HandlerIdleStep ==
    \A p \in Publishers :
        (SessionHandlerRuns(p) /\ active_recording.recording_id = 0) =>
            /\ conn'.db.details = conn.db.details
            /\ conn'.db.recordings = conn.db.recordings
            /\ conn'.durable.details = conn.durable.details
            /\ conn'.durable.recordings = conn.durable.recordings
            /\ active_recording' = active_recording

\* C13: the handler is a no-op when no recording is active
C13_NoRecordingNoOp == [][C13_HandlerIdleStep]_vars

\* C13 witness: after complete_recording the handler has run for an event of the
\* session's owner, whose branch has a head, and has written nothing
C13_Witness ==
    \E p \in Publishers :
        /\ pub[p].pc = "done"
        /\ pub[p].kind = "llm_call_end"
        /\ pub[p].node # 0
        /\ pub[p].detail = 0
        /\ Len(pub[p].called) = 2
        /\ active_recording.recording_id = 0
        /\ Len(conn.db.recordings) > 0
        /\ conn.db.recordings[1].status = "completed"

\* the owner the tracer files the event of publish p under
TracerUser(p) == IF UserTruthy(pub[p].user_id) THEN pub[p].user_id ELSE "default"

\* the tracer's callback is the one the publish p runs in this step
TracerRuns(p) ==
    /\ CurrentCallback(p) = "tracer"
    /\ pub'[p].idx = pub[p].idx + 1

\* C14: the tracer's callback for an owner without an active branch returns
\* normally, inserts no node and changes no branch
C14_DropStep ==
    \A p \in Publishers :
        (TracerRuns(p) /\ get_active_branch(conn.db, TracerUser(p)) = 0) =>
            /\ pub'[p].pc # "raised"
            /\ conn'.db.nodes = conn.db.nodes
            /\ conn'.db.branches = conn.db.branches
            /\ conn'.durable.nodes = conn.durable.nodes
            /\ conn'.durable.branches = conn.durable.branches

\* C14: an event of an owner with no active branch is dropped without raising
C14_NoActiveBranchDrops == [][C14_DropStep]_vars

\* C14 witness: a publish for an owner without a branch has returned with no
\* node made, in a store where the other owner has a branch and a node
C14_Witness ==
    \E p \in Publishers :
        /\ pub[p].pc = "done"
        /\ pub[p].kind = "user_input"
        /\ Len(pub[p].called) = 1
        /\ pub[p].node = 0
        /\ get_active_branch(conn.db, TracerUser(p)) = 0
        /\ Len(conn.db.nodes) > 0

\* C15: right after a branch is created, get_active_branch of its owner
\* returns the branch just created
C15_NewBranchStep ==
    Len(conn'.db.branches) = Len(conn.db.branches) + 1 =>
        LET b == Len(conn'.db.branches)
        IN get_active_branch(conn'.db, conn'.db.branches[b].user_id) = b

\* C15: get_active_branch returns the most recently created active branch of
\* the owner, the branch just created right after create_branch or
\* create_recording
C15_NewestActiveBranch == [][C15_NewBranchStep]_vars

\* the node and branch rows of owner u, with their ids
OwnerRows(D, u) ==
    [nodes |-> {<<i, D.nodes[i]>> : i \in {j \in NodeIds(D) : D.nodes[j].user_id = u}},
     branches |-> {<<i, D.branches[i]>> :
                      i \in {j \in BranchIds(D) : D.branches[j].user_id = u}}]

\* C16: a step of a publish for one owner leaves the nodes and branches of
\* every other owner as they were
C16_OtherOwnersStep ==
    \A p \in Publishers :
        (pub[p].pc = "running" /\ pub'[p] # pub[p]) =>
            \A u \in Users \ {TracerUser(p)} :
                /\ OwnerRows(conn'.db, u) = OwnerRows(conn.db, u)
                /\ OwnerRows(conn'.durable, u) = OwnerRows(conn.durable, u)

\* C16: publishing an event of owner A changes no node and no branch of another
\* owner B, however the events of the owners interleave
C16_OwnersIsolated == [][C16_OtherOwnersStep]_vars

\* C16 witness: the publishes of the two threads, one per owner, have each
\* recorded a node of their owner
C16_Witness ==
    /\ \A p \in Publishers : pub[p].pc = "done" /\ pub[p].node # 0
    /\ pub[1].user_id # pub[2].user_id
    /\ pub[1].node > pub[2].node
    /\ \A u \in Users : OwnerRows(conn.db, u).nodes # {}

\* C17: a run id whose run has had its terminal callback, or was never
\* started, has no entry in _runs, _tool_runs or _context_map
C17_EndedRunsReleased ==
    \A r \in RunIds :
        adapter.open[r] = NONE =>
            /\ r \notin adapter.runs
            /\ r \notin adapter.tool_runs
            /\ adapter.context_map[r] = NoContext

EndCallbacks == {"on_llm_end", "on_llm_error", "on_tool_end", "on_tool_error"}

\* C18: an end or error callback for a run id without a stored entry publishes
\* nothing
C18_OrphanCallbackSilent ==
    (adapter.last.cb \in EndCallbacks /\ ~adapter.last.had_entry) =>
        adapter.last.published = NONE

StartCallbacks == {"on_chain_start", "on_chat_model_start"}

\* C19: a user_id or session_id given in configurable is the one the adapter
\* resolves, whatever the metadata and the inherited contexts hold
C19_ConfigurableWins ==
    adapter.last.cb \in StartCallbacks =>
        LET given == adapter.last.configurable
            resolved == adapter.context_map[adapter.last.run_id]
        IN /\ UserTruthy(given[1]) => resolved[1] = given[1]
           /\ UserTruthy(given[2]) => resolved[2] = given[2]

\* the elements of s at the positions I, in order
RECURSIVE Pick(_, _, _)
Pick(s, I, i) ==
    IF i > Len(s) THEN <<>>
    ELSE (IF i \in I THEN <<s[i]>> ELSE <<>>) \o Pick(s, I, i + 1)

\* the length of a longest common subsequence of s and t
LcsLength(s, t) ==
    Max({Cardinality(I) : I \in {X \in SUBSET (1 .. Len(s)) :
            \E Y \in SUBSET (1 .. Len(t)) : Pick(s, X, 1) = Pick(t, Y, 1)}})

Matched(pairs) == {k \in 1 .. Len(pairs) : pairs[k].status = "matched"}

\* C20: the number of MATCHED pairs align_by_lcs emits is the length of a
\* longest common subsequence of the two fingerprint sequences, and every
\* MATCHED pair joins two steps with equal fingerprints
C20_MatchedIsLcs ==
    align.pc = "done" =>
        /\ Cardinality(Matched(align.pairs)) = LcsLength(align.baseline, align.replay)
        /\ \A k \in Matched(align.pairs) :
              align.baseline[align.pairs[k].baseline_index + 1]
                 = align.replay[align.pairs[k].replay_index + 1]

\* C20 witness: an alignment of two sequences of full length with two matched
\* pairs, a removed step and an added step
C20_Witness ==
    /\ align.pc = "done"
    /\ Len(align.baseline) = MaxLen
    /\ Len(align.replay) = MaxLen
    /\ Cardinality(Matched(align.pairs)) = 2
    /\ \E k \in 1 .. Len(align.pairs) : align.pairs[k].status = "removed"
    /\ \E k \in 1 .. Len(align.pairs) : align.pairs[k].status = "added"

Compared == comparison.pc = "done" /\ comparison.result.raised = NONE

\* 0-based indexes of the steps scored diverge, add or remove
Deviations == {i \in 0 .. Len(comparison.scored) - 1 :
                 comparison.scored[i + 1] \in {"diverge", "add", "remove"}}

\* C21: root_cause_index is the smallest index whose status before cascade
\* marking is diverge, add or remove, and None exactly when there is none
C21_RootCauseIsFirstDeviation ==
    Compared =>
        /\ (comparison.result.root_cause_index = NULL) <=> (Deviations = {})
        /\ Deviations # {} => comparison.result.root_cause_index = Min(Deviations)

\* C21 witness: a comparison whose first step matches and whose root cause is
\* a later added or removed step
C21_Witness ==
    /\ Compared
    /\ comparison.result.root_cause_index >= 1
    /\ comparison.scored[comparison.result.root_cause_index + 1] \in {"add", "remove"}

\* C22: with root cause k no step before k diverges, every step after k that
\* was scored diverge ends as cascade, and add, remove and match steps keep
\* their status
C22_CascadeMonotone ==
    Compared /\ comparison.result.root_cause_index # NULL =>
        LET k == comparison.result.root_cause_index
            final == comparison.result.step_comparisons
        IN /\ Len(final) = Len(comparison.scored)
           /\ \A i \in 0 .. Len(final) - 1 :
                /\ i < k => final[i + 1] # "diverge"
                /\ i > k /\ comparison.scored[i + 1] = "diverge" => final[i + 1] = "cascade"
                /\ comparison.scored[i + 1] \in {"add", "remove", "match"}
                      => final[i + 1] = comparison.scored[i + 1]

\* C22 witness: a step after the root cause was scored diverge and is marked
C22_Witness ==
    /\ Compared
    /\ comparison.result.root_cause_index # NULL
    /\ \E i \in 1 .. Len(comparison.scored) :
          /\ i - 1 > comparison.result.root_cause_index
          /\ comparison.scored[i] = "diverge"
          /\ comparison.result.step_comparisons[i] = "cascade"

\* C23: overall_pass holds exactly when no step is diverge, add or remove
\* after cascade marking, which is when there is no root cause and every step
\* is a match
C23_PassIffNoDeviation ==
    Compared =>
        LET final == comparison.result.step_comparisons
        IN /\ comparison.result.overall_pass
                <=> (\A i \in 1 .. Len(final) : final[i] \notin {"diverge", "add", "remove"})
           /\ comparison.result.overall_pass
                <=> (/\ comparison.result.root_cause_index = NULL
                     /\ \A i \in 1 .. Len(final) : final[i] = "match")

\* C23 witness: a passing comparison of two different recordings of full length
C23_Witness ==
    /\ Compared
    /\ comparison.result.overall_pass
    /\ Len(comparison.baseline) = MaxSteps
    /\ comparison.baseline # comparison.replay

\* C24: comparing an empty baseline with an empty replay returns a result that
\* passes with all counts 0, without raising
C24_EmptyComparisonPasses ==
    comparison.pc = "done" /\ comparison.baseline = <<>> /\ comparison.replay = <<>> =>
        /\ comparison.result.raised = NONE
        /\ comparison.result.overall_pass
        /\ comparison.result.total_steps = 0
        /\ comparison.result.matched_steps = 0
        /\ comparison.result.mismatched_steps = 0
        /\ comparison.result.added_steps = 0
        /\ comparison.result.removed_steps = 0
        /\ comparison.result.cascade_steps = 0

\* the five components of a request's fingerprint
Components(provider, method, request_params) ==
    <<provider, method, request_params.model,
      extract_message_roles(request_params), extract_tool_names(request_params)>>

\* C25: two requests equal on provider, method, model, ordered message roles
\* and ordered tool names get equal fingerprints, whatever their message
\* contents and temperature
C25_FingerprintOfStructureOnly ==
    fp.pc = "second"
      /\ Components(fp.provider, fp.method, fp.request)
            = Components(fp.provider, fp.method, fp.request2)
      => fp.fingerprint = fp.fingerprint2

\* C25 witness: a request of full length sent again with other contents and
\* another temperature
C25_Witness ==
    /\ fp.pc = "second"
    /\ fp.change.kind = "resend"
    /\ Len(fp.request.messages) = MaxMessages
    /\ \A i \in 1 .. MaxMessages : fp.request2.messages[i].content # fp.request.messages[i].content
    /\ fp.request2.temperature # fp.request.temperature

Swapped(what) == fp.pc = "second" /\ fp.change.kind = what

C28_ShaIffCheckpointNode ==
    \A i \in 1 .. Len(conn.db.nodes) :
        (conn.db.nodes[i].checkpoint_sha # NONE)
            <=> (conn.db.nodes[i].action_type = "checkpoint")

\* C28 witness: a checkpoint node with its sha appended after an event's node
C28_Witness ==
    \E i, j \in 1 .. Len(conn.db.nodes) :
        /\ i < j
        /\ conn.db.nodes[i].action_type \notin {"checkpoint", NONE}
        /\ conn.db.nodes[i].checkpoint_sha = NONE
        /\ conn.db.nodes[j].action_type = "checkpoint"
        /\ conn.db.nodes[j].checkpoint_sha # NONE

\* C27: a checkpoint call that returns a Checkpoint has linked it to a node
\* with action_type checkpoint whose checkpoint_sha is the checkpoint's
\* filesystem_ref, has made that node the head of its branch, and has stored a
\* metadata row keyed by the checkpoint's hash that references the node
C27_ReturnedCheckpointIsLinked ==
    vc.last.op = "checkpoint" /\ vc.last.returned = "checkpoint" =>
        \E n \in 1 .. Len(conn.db.nodes) :
            /\ conn.db.nodes[n].user_id = vc.last.user_id
            /\ conn.db.nodes[n].action_type = "checkpoint"
            /\ conn.db.nodes[n].checkpoint_sha = vc.last.filesystem_ref
            /\ BranchHead(conn.db, conn.db.nodes[n].branch_id) = n
            /\ \E r \in 1 .. Len(conn.db.checkpoints) :
                  /\ conn.db.checkpoints[r].hash = vc.last.hash
                  /\ conn.db.checkpoints[r].node_id = n

\* the tree of the commit the latest restore call restored
RestoredTree == CommitOf(vc, vc.last.filesystem_ref).tree

\* C29: when a checkpoint made for an owner is restored through the facade
\* for that owner, every file captured in it has its captured contents in
\* that owner's workspace
C29_RestoreRoundTrip ==
    /\ vc.last.op \in {"restore", "restore_checkpoint"}
    /\ vc.last.returned \in {"None", "True"}
    /\ vc.last.created_for = vc.last.user_id
    => \A f \in Files :
          RestoredTree[f] # NONE
             => vc.files[get_workspace(vc.last.user_id)][f] = RestoredTree[f]

\* C30: after restore_commit(sha, workspace) into the workspace the commit
\* was taken of (under the default store directory) the tracked files of the
\* workspace and their contents are those recorded in the commit, so a file
\* created after the checkpoint is gone
C30_RestoreEqualsSnapshot ==
    /\ vc.last.op \in {"restore", "restore_checkpoint"}
    /\ vc.last.workspace # NONE
    /\ vc.last.workspace = get_workspace(vc.last.created_for)
    /\ vc.agit_dir = ".agentgit"
    => /\ get_tracked_files(vc, vc.last.workspace) = {f \in Files : RestoredTree[f] # NONE}
       /\ \A f \in get_tracked_files(vc, vc.last.workspace) :
             vc.files[vc.last.workspace][f] = RestoredTree[f]

\* the positions of the pairs that carry an index on one side
BaselineSide(pairs) == {k \in 1 .. Len(pairs) : pairs[k].baseline_index # NULL}
ReplaySide(pairs) == {k \in 1 .. Len(pairs) : pairs[k].replay_index # NULL}

\* C31: align_by_lcs emits a complete, order-preserving alignment: every
\* baseline index and every replay index is in exactly one emitted pair, the
\* indices increase along the output on each side, a pair is MATCHED, REMOVED
\* or ADDED according to the sides it carries, and the number of pairs is
\* len(baseline) + len(replay) - MATCHED, so no index is advanced past
\* without a pair being emitted for it
C31_AlignmentComplete ==
    align.pc = "done" =>
        LET pairs == align.pairs
            m == Len(align.baseline)
            n == Len(align.replay)
        IN /\ \A i \in 0 .. m - 1 :
                 Cardinality({k \in BaselineSide(pairs) : pairs[k].baseline_index = i}) = 1
           /\ \A j \in 0 .. n - 1 :
                 Cardinality({k \in ReplaySide(pairs) : pairs[k].replay_index = j}) = 1
           /\ \A k \in BaselineSide(pairs) : pairs[k].baseline_index \in 0 .. m - 1
           /\ \A k \in ReplaySide(pairs) : pairs[k].replay_index \in 0 .. n - 1
           /\ \A k, l \in BaselineSide(pairs) :
                 k < l => pairs[k].baseline_index < pairs[l].baseline_index
           /\ \A k, l \in ReplaySide(pairs) :
                 k < l => pairs[k].replay_index < pairs[l].replay_index
           /\ \A k \in 1 .. Len(pairs) :
                 /\ pairs[k].status \in {"matched", "removed", "added"}
                 /\ pairs[k].status = "matched" <=>
                       k \in BaselineSide(pairs) /\ k \in ReplaySide(pairs)
                 /\ pairs[k].status = "removed" <=>
                       k \in BaselineSide(pairs) /\ k \notin ReplaySide(pairs)
                 /\ pairs[k].status = "added" <=>
                       k \notin BaselineSide(pairs) /\ k \in ReplaySide(pairs)
           /\ Len(pairs) = m + n - Cardinality(Matched(pairs))

\* C31 witness: two recordings of full length that share the same fingerprints
\* in a different order, so that a step is removed before the one matched
\* pair and a step is added after it
C31_Witness ==
    /\ align.pc = "done"
    /\ Len(align.baseline) = MaxLen
    /\ Len(align.replay) = MaxLen
    /\ \E x, y \in Fingerprints :
          /\ x # y
          /\ align.baseline[1] = x /\ align.baseline[2] = y
          /\ align.replay[1] = y /\ align.replay[2] = x
    /\ \E k, l, h \in 1 .. Len(align.pairs) :
          /\ k < l /\ l < h
          /\ align.pairs[k].status # "matched"
          /\ align.pairs[l].status = "matched"
          /\ align.pairs[h].status # "matched"

\* C32: in every ComparisonResult compare_recordings returns, each summary
\* count is the number of steps with that final status, and the five counts
\* add up to total_steps
C32_CountsMatchFinalStatuses ==
    Compared =>
        LET r == comparison.result
        IN /\ r.total_steps = Len(r.step_comparisons)
           /\ r.matched_steps = CountStatus(r.step_comparisons, "match")
           /\ r.mismatched_steps = CountStatus(r.step_comparisons, "diverge")
           /\ r.added_steps = CountStatus(r.step_comparisons, "add")
           /\ r.removed_steps = CountStatus(r.step_comparisons, "remove")
           /\ r.cascade_steps = CountStatus(r.step_comparisons, "cascade")
           /\ r.matched_steps + r.mismatched_steps + r.added_steps
                 + r.removed_steps + r.cascade_steps = r.total_steps

\* C33: every sidecar row of a recording references a node of that
\* recording's branch and of that recording's owner
C33_SidecarOnRecordingBranch ==
    \A d \in 1 .. Len(conn.db.details) :
        LET detail == conn.db.details[d]
            recording == conn.db.recordings[detail.recording_id]
        IN /\ detail.node_id \in NodeIds(conn.db)
           /\ conn.db.nodes[detail.node_id].branch_id = recording.branch_id
           /\ conn.db.nodes[detail.node_id].user_id = recording.user_id

\* no two branches of the owner were created in the same second
CreatedApart(D, u) ==
    \A i, j \in BranchIds(D) :
        (i # j /\ D.branches[i].user_id = u /\ D.branches[j].user_id = u)
            => D.branches[i].created_at # D.branches[j].created_at

\* C34: when switch_branch(owner, name) returns True, the branch of that name
\* is the one get_active_branch then returns for the owner (here for an owner
\* whose branches were all created in different seconds)
C34_SwitchStep ==
    \A u \in Users, n \in OwnerBranchNames :
        (CreatedApart(conn.db, u) /\ SwitchBranch(u, n)) =>
            get_active_branch(conn'.db, u) = get_branch(conn'.db, u, n)

C34_SwitchedBranchIsActive == [][C34_SwitchStep]_vars

\* C35: a checkpoint call succeeds whatever earlier checkpoints there are, also
\* one with the agent memory and history of an earlier checkpoint and other
\* workspace contents, and its metadata row then holds the snapshot it took
\* (for the calls made under an active branch, which are given a node)
C35_EqualMemoryCheckpointsSucceed ==
    (/\ vc.last.op = "checkpoint"
     /\ \E n \in NodeIds(conn.db) :
           conn.db.nodes[n].checkpoint_sha = vc.last.filesystem_ref) =>
        /\ vc.last.returned = "checkpoint"
        /\ get_checkpoint(conn.db, vc.last.hash) # 0
        /\ conn.db.checkpoints[get_checkpoint(conn.db, vc.last.hash)].filesystem_ref
              = vc.last.filesystem_ref

\* C36: restore_to_node(owner, node_id) returns True and restores the
\* workspace when node_id is a checkpoint node of that owner, and returns
\* False only when the node has no checkpoint
C36_RestoreToCheckpointNode ==
    vc.last.op = "restore_to_node" =>
        LET n == vc.last.node_id
            owned == n \in NodeIds(conn.db) /\ conn.db.nodes[n].user_id = vc.last.user_id
        IN /\ (owned /\ conn.db.nodes[n].action_type = "checkpoint") =>
                 /\ vc.last.returned = "True"
                 /\ vc.last.filesystem_ref = conn.db.nodes[n].checkpoint_sha
                 /\ vc.last.workspace = get_workspace(vc.last.user_id)
           /\ vc.last.returned = "False" =>
                 ~(owned /\ conn.db.nodes[n].checkpoint_sha # NONE)

\* C37: once a recording is completed or failed, no step sets it back to
\* in_progress, adds a sidecar row to it or changes its step_count
C37_FinishedStep ==
    \A r \in 1 .. Len(conn.db.recordings) :
        conn.db.recordings[r].status \in {"completed", "failed"} =>
            /\ conn'.db.recordings[r].status # "in_progress"
            /\ conn'.db.recordings[r].step_count = conn.db.recordings[r].step_count
            /\ DetailsOf(conn'.db, r) = DetailsOf(conn.db, r)

C37_FinishedRecordingImmutable == [][C37_FinishedStep]_vars

\* the owner whose branch the tracer records an event on
RecordedOwner(ev_user) == IF UserTruthy(ev_user) THEN ev_user ELSE "default"

\* C38: every event the adapter publishes for a run it has started and whose
\* (user_id, session_id) it has resolved is recorded for that user_id
C38_EventCarriesRunOwner ==
    (/\ adapter.last.published # NONE
     /\ adapter.last.resolved # NoContext
     /\ adapter.last.had_entry \/ adapter.last.cb \in StartCallbacks) =>
        RecordedOwner(adapter.last.ev_user) = adapter.last.resolved[1]

\* C39: results of one baseline against different replay recordings have
\* different comparison_ids, every store_comparison of one succeeds, and
\* get_comparison returns each stored result as it was returned
C39_ComparisonsAddressable ==
    /\ \A i, j \in 1 .. Len(comparison.returned) :
          comparison.returned[i].replay_recording_id
             # comparison.returned[j].replay_recording_id
          => comparison.returned[i].comparison_id # comparison.returned[j].comparison_id
    /\ comparison.stored # "IntegrityError"
    /\ \A i \in 1 .. Len(comparison.returned) :
          (i < Len(comparison.returned) \/ comparison.pc = "stored") =>
              get_comparison_result(comparison, comparison.returned[i].comparison_id)
                 = comparison.returned[i]
====
